---- MODULE Spec2Model ----
(***************************************************************************)
(* Query classification, agent selection and scatter/gather dispatch of   *)
(* the FinanceAgents routers (shared_lib.query_classification, the         *)
(* LangChain RouterAgent, the CrewAI RouterCrew, the LlamaIndexRouter and  *)
(* the FinanceAgentsWorkflow fan-out).                                     *)
(*                                                                         *)
(* Python strings are sequences of one-character strings, so that          *)
(* lower(), strip(), word-boundary search, re.sub and substring tests are  *)
(* computed character by character as the code computes them.             *)
(***************************************************************************)
EXTENDS Integers, Sequences, FiniteSets, TLC

(***************************************************************************)
(* Characters and the str methods the classifier uses                      *)
(***************************************************************************)
UpperCase == <<"A","B","C","D","E","F","G","H","I","J","K","L","M","N","O","P","Q","R","S","T","U","V","W","X","Y","Z">>
LowerCase == <<"a","b","c","d","e","f","g","h","i","j","k","l","m","n","o","p","q","r","s","t","u","v","w","x","y","z">>
Digits == <<"0","1","2","3","4","5","6","7","8","9">>

\* The characters the regex class \w accepts: letters, digits, underscore.
WordChars ==
  {UpperCase[i] : i \in 1..26} \cup {LowerCase[i] : i \in 1..26}
    \cup {Digits[i] : i \in 1..10} \cup {"_"}

\* The characters str.strip() removes.
Whitespace == {" "}

\* Python's None where a str is expected (never equal to a character sequence).
None == <<"None">>

LowerChar(c) ==
  IF \E i \in 1..26 : UpperCase[i] = c
    THEN LowerCase[CHOOSE i \in 1..26 : UpperCase[i] = c]
    ELSE c

\* Variant: the string as typed.
AsTyped(s) == s

\* str.lower()
Lower(s) == [i \in 1..Len(s) |-> LowerChar(s[i])]

RECURSIVE LStrip(_)
LStrip(s) ==
  IF s # <<>> /\ Head(s) \in Whitespace THEN LStrip(Tail(s)) ELSE s

RECURSIVE RStrip(_)
RStrip(s) ==
  IF s # <<>> /\ s[Len(s)] \in Whitespace
    THEN RStrip(SubSeq(s, 1, Len(s) - 1)) ELSE s

\* str.strip()
Strip(s) == RStrip(LStrip(s))

\* s[i:i+len(k)] == k
MatchAt(s, k, i) ==
  /\ i + Len(k) - 1 <= Len(s)
  /\ \A j \in 1..Len(k) : s[i + j - 1] = k[j]

\* the Python test  `k in s`  for two str values
Contains(s, k) == \E i \in 1..(Len(s) - Len(k) + 1) : MatchAt(s, k, i)

\* str.endswith
EndsWith(s, k) == Len(k) <= Len(s) /\ MatchAt(s, k, Len(s) - Len(k) + 1)

\* Is position p (1..Len(s)) of s a \w character?  Outside the string: no.
IsWordAt(s, p) == p \in 1..Len(s) /\ s[p] \in WordChars

\* The regex assertion \b between s[p-1] and s[p].
Boundary(s, p) == IsWordAt(s, p - 1) # IsWordAt(s, p)

\* rf'\b{re.escape(name)}\b' matches s starting at position i.  re.escape
\* makes the name a literal, so compiling the pattern never raises re.error
\* and the substring fallback of the except branches is never taken.
WordMatchAt(s, name, i) ==
  /\ Len(name) > 0
  /\ MatchAt(s, name, i)
  /\ Boundary(s, i)
  /\ Boundary(s, i + Len(name))

\* re.search(rf'\b{re.escape(name)}\b', s) is not None
re_search(name, s) == \E i \in 1..Len(s) : WordMatchAt(s, name, i)

\* re.sub(rf'\b{re.escape(name)}\b', '', s): leftmost non-overlapping
\* matches are dropped; the boundaries are those of the original string.
RECURSIVE SubFrom(_, _, _)
SubFrom(s, name, i) ==
  IF i > Len(s) THEN <<>>
  ELSE IF WordMatchAt(s, name, i) THEN SubFrom(s, name, i + Len(name))
  ELSE <<s[i]>> \o SubFrom(s, name, i + 1)

re_sub(name, s) == SubFrom(s, name, 1)

(***************************************************************************)
(* Lexicon: company name -> ticker, in dict order, and the keyword list    *)
(***************************************************************************)
COMPANY_TICKER_MAP ==
  << <<<<"a","p","p","l","e">>, <<"A","A","P","L">>>>,
     <<<<"m","i","c","r","o","s","o","f","t">>, <<"M","S","F","T">>>>,
     <<<<"g","o","o","g","l","e">>, <<"G","O","O","G","L">>>>,
     <<<<"a","l","p","h","a","b","e","t">>, <<"G","O","O","G","L">>>>,
     <<<<"a","m","a","z","o","n">>, <<"A","M","Z","N">>>>,
     <<<<"m","e","t","a">>, <<"M","E","T","A">>>>,
     <<<<"f","a","c","e","b","o","o","k">>, <<"M","E","T","A">>>>,
     <<<<"t","e","s","l","a">>, <<"T","S","L","A">>>>,
     <<<<"n","v","i","d","i","a">>, <<"N","V","D","A">>>>,
     <<<<"n","e","t","f","l","i","x">>, <<"N","F","L","X">>>>,
     <<<<"i","n","t","e","l">>, <<"I","N","T","C">>>>,
     <<<<"i","b","m">>, <<"I","B","M">>>> >>

FINANCIAL_KEYWORDS ==
  << <<"s","t","o","c","k">>,
     <<"s","t","o","c","k","s">>,
     <<"s","h","a","r","e">>,
     <<"s","h","a","r","e","s">>,
     <<"p","r","i","c","e">>,
     <<"p","r","i","c","e","s">>,
     <<"e","a","r","n","i","n","g","s">>,
     <<"r","e","v","e","n","u","e">>,
     <<"p","r","o","f","i","t">>,
     <<"l","o","s","s">>,
     <<"i","n","c","o","m","e">>,
     <<"i","n","v","e","s","t">>,
     <<"i","n","v","e","s","t","m","e","n","t">>,
     <<"i","n","v","e","s","t","o","r">>,
     <<"i","n","v","e","s","t","i","n","g">>,
     <<"d","i","v","i","d","e","n","d">>,
     <<"d","i","v","i","d","e","n","d","s">>,
     <<"y","i","e","l","d">>,
     <<"m","a","r","k","e","t">>,
     <<"m","a","r","k","e","t","s">>,
     <<"t","r","a","d","i","n","g">>,
     <<"t","r","a","d","e">>,
     <<"t","r","a","d","e","r">>,
     <<"b","u","y">>,
     <<"s","e","l","l">>,
     <<"h","o","l","d">>,
     <<"b","u","l","l","i","s","h">>,
     <<"b","e","a","r","i","s","h">>,
     <<"b","u","l","l">>,
     <<"b","e","a","r">>,
     <<"p","o","r","t","f","o","l","i","o">>,
     <<"a","s","s","e","t">>,
     <<"a","s","s","e","t","s">>,
     <<"l","i","a","b","i","l","i","t","y">>,
     <<"l","i","a","b","i","l","i","t","i","e","s">>,
     <<"s","e","c">>,
     <<"f","i","l","i","n","g">>,
     <<"f","i","l","i","n","g","s">>,
     <<"1","0","-","k">>,
     <<"1","0","-","q">>,
     <<"1","0","k">>,
     <<"1","0","q">>,
     <<"q","u","a","r","t","e","r","l","y">>,
     <<"a","n","n","u","a","l">>,
     <<"f","i","s","c","a","l">>,
     <<"f","i","n","a","n","c","i","a","l">>,
     <<"f","i","n","a","n","c","e">>,
     <<"b","a","l","a","n","c","e"," ","s","h","e","e","t">>,
     <<"i","n","c","o","m","e"," ","s","t","a","t","e","m","e","n","t">>,
     <<"c","a","s","h"," ","f","l","o","w">>,
     <<"p","/","e">>,
     <<"r","a","t","i","o">>,
     <<"e","p","s">>,
     <<"e","b","i","t","d","a">>,
     <<"r","o","i">>,
     <<"r","o","e">>,
     <<"a","n","a","l","y","s","t">>,
     <<"f","o","r","e","c","a","s","t">>,
     <<"v","a","l","u","a","t","i","o","n">>,
     <<"c","a","p","i","t","a","l","i","z","a","t","i","o","n">>,
     <<"i","p","o">>,
     <<"m","e","r","g","e","r">>,
     <<"a","c","q","u","i","s","i","t","i","o","n">>,
     <<"b","o","n","d">>,
     <<"b","o","n","d","s">>,
     <<"e","q","u","i","t","y">>,
     <<"d","e","b","t">>,
     <<"l","o","a","n">>,
     <<"b","a","n","k">>,
     <<"b","a","n","k","i","n","g">>,
     <<"n","a","s","d","a","q">>,
     <<"n","y","s","e">>,
     <<"s","&","p">>,
     <<"d","o","w">>,
     <<"e","t","f">>,
     <<"f","u","n","d">>,
     <<"h","e","d","g","e">>,
     <<"m","u","t","u","a","l">>,
     <<"i","n","d","e","x">>,
     <<"v","o","l","a","t","i","l","i","t","y">>,
     <<"v","o","l","u","m","e">>,
     <<"m","o","m","e","n","t","u","m">>,
     <<"t","i","c","k","e","r">>,
     <<"s","y","m","b","o","l">>,
     <<"c","h","a","r","t">>,
     <<"r","e","p","o","r","t">>,
     <<"q","u","a","r","t","e","r">>,
     <<"g","u","i","d","a","n","c","e">>,
     <<"o","u","t","l","o","o","k">>,
     <<"s","e","n","t","i","m","e","n","t">>,
     <<"w","a","l","l"," ","s","t","r","e","e","t">> >>

\* dict.keys() of the lexicon, in dict order
ctm_keys(ctm) == [i \in 1..Len(ctm) |-> ctm[i][1]]

\* dict.get(name): the ticker of the entry with that key, else None
ctm_get(ctm, name) ==
  IF \E i \in 1..Len(ctm) : ctm[i][1] = name
    THEN ctm[CHOOSE i \in 1..Len(ctm) : ctm[i][1] = name][2]
    ELSE None

\* Variant: every company of the lexicon paired with its lower-cased ticker.
ticker_to_companies(ctm) ==
  { <<Lower(ctm[i][2]), ctm[i][1]>> : i \in 1..Len(ctm) }

\* ticker_to_company after the setdefault loop: for each lower-cased ticker
\* the first company of the lexicon that carries it.
ticker_to_company(ctm) ==
  { <<Lower(ctm[i][2]), ctm[i][1]>> :
      i \in { k \in 1..Len(ctm) :
                \A j \in 1..(k - 1) : Lower(ctm[j][2]) # Lower(ctm[k][2]) } }

(***************************************************************************)
(* The raw_data directory: file names as str; the directory may be absent  *)
(***************************************************************************)
SUPPORTED_EXTENSIONS ==
  { <<".","p","d","f">>, <<".","h","t","m">>, <<".","h","t","m","l">> }

\* os.path.splitext(fname)[0]: cut at the last dot unless only dots precede it
splitext_root(fname) ==
  LET dots == { p \in 1..Len(fname) : fname[p] = "." } IN
  IF dots = {} THEN fname
  ELSE LET last == CHOOSE p \in dots : \A q \in dots : q <= p IN
       IF \E q \in 1..(last - 1) : fname[q] # "."
         THEN SubSeq(fname, 1, last - 1)
         ELSE fname

\* base.split("-")[0] if "-" in base else base
leading_segment(base) ==
  LET dashes == { p \in 1..Len(base) : base[p] = "-" } IN
  IF dashes = {} THEN base
  ELSE SubSeq(base, 1, (CHOOSE p \in dashes : \A q \in dashes : p <= q) - 1)

\* the lower-cased company identifiers the corpus loop derives from file names
file_companies(raw_data) ==
  IF ~raw_data.exists THEN {}
  ELSE { Lower(leading_segment(splitext_root(f))) :
           f \in { g \in raw_data.files :
                     \E ext \in SUPPORTED_EXTENSIONS : EndsWith(Lower(g), ext) } }

(***************************************************************************)
(* shared_lib.query_classification                                         *)
(***************************************************************************)
\* A call either returns a value or raises.
Return(v) == [exc |-> FALSE, val |-> v]
Raise == [exc |-> TRUE, val |-> FALSE]

\* Variant: a plain substring test.
substring_search(name, s) == Contains(s, name)

\* `\b \b` with an empty name matches at any word boundary of the string.
word_search(name, s) ==
  IF name = <<>> THEN \E p \in 1..(Len(s) + 1) : Boundary(s, p)
  ELSE re_search(name, s)

\* Variant: an extractor that searches the query as typed, without lower().
extract_companies_cased(query, ctm, raw_data) ==
  IF query = None \/ query = <<>> THEN {}
  ELSE
    LET by_name == { ctm[i][1] : i \in { k \in 1..Len(ctm) :
                                           word_search(ctm[k][1], query) } }
        by_ticker == { tc[2] : tc \in { p \in ticker_to_company(ctm) :
                                          word_search(p[1], query) } }
        by_file == { c \in file_companies(raw_data) : word_search(c, query) }
    IN by_name \cup by_ticker \cup by_file

\* extract_companies(query, company_ticker_map, raw_data_dir): the set the
\* returned list is built from (list(set) has no specified order).
extract_companies(query, ctm, raw_data) ==
  IF query = None \/ query = <<>> THEN {}
  ELSE
    LET query_lower == Lower(query)
        by_name == { ctm[i][1] : i \in { k \in 1..Len(ctm) :
                                           word_search(ctm[k][1], query_lower) } }
        by_ticker == { tc[2] : tc \in { p \in ticker_to_company(ctm) :
                                          word_search(p[1], query_lower) } }
        by_file == { c \in file_companies(raw_data) : word_search(c, query_lower) }
    IN by_name \cup by_ticker \cup by_file

\* Variant: a lookup of the names as given, without lower().
map_to_tickers_cased(companies, ctm) ==
  { ctm_get(ctm, companies[i]) :
      i \in { k \in 1..Len(companies) : ctm_get(ctm, companies[k]) # None } }

\* map_to_tickers(companies, company_ticker_map): set of the tickers found
map_to_tickers(companies, ctm) ==
  { ctm_get(ctm, Lower(companies[i])) :
      i \in { k \in 1..Len(companies) : ctm_get(ctm, Lower(companies[k])) # None } }

\* Variant: nothing is removed from the query.
keep_all(remaining, names) == remaining

\* The loop  for x in names: remaining = re.sub(..x.., '', remaining).strip()
RECURSIVE remove_all(_, _)
remove_all(remaining, names) ==
  IF names = <<>> THEN remaining
  ELSE remove_all(Strip(re_sub(Head(names), remaining)), Tail(names))

\* Variant: a keyword test that only accepts whole words.
has_whole_keyword(text, kw) == \E i \in 1..Len(kw) : re_search(kw[i], text)

\* any(keyword in text for keyword in kw)
has_keyword(text, kw) == \E i \in 1..Len(kw) : Contains(text, kw[i])

\* Variant: a threshold one character longer.
LONGER_REMAINING == 2 + 1

\* "remaining" this short counts as a bare company/ticker query
SHORT_REMAINING == 2

\* is_financial_query(query, companies, tickers, financial_keywords):
\* query.lower() raises AttributeError when query is None.
is_financial_with(query, companies, tickers, kw) ==
  IF query = None THEN Raise
  ELSE
    LET query_lower == Strip(Lower(query)) IN
    IF companies # <<>> \/ tickers # <<>> THEN
      LET remaining ==
            remove_all(remove_all(query_lower, companies),
                       [i \in 1..Len(tickers) |-> Lower(tickers[i])])
      IN IF remaining = <<>> \/ Len(Strip(remaining)) <= SHORT_REMAINING
           THEN Return(TRUE)
           ELSE Return(has_keyword(remaining, kw))
    ELSE Return(has_keyword(query_lower, kw))

\* is_financial_query(query, companies, tickers) with the default keyword list
is_financial_query(query, companies, tickers) ==
  is_financial_with(query, companies, tickers, FINANCIAL_KEYWORDS)

\* Variant: a call that enters each lower-cased ticker into the lexicon.
lexicon_with_tickers(function, ctm) ==
  IF function = "extract_companies"
    THEN ctm \o [i \in 1..Len(ctm) |-> <<Lower(ctm[i][2]), ctm[i][2]>>]
    ELSE ctm

\* The module's lexicon after a call of one of the four functions: they read
\* ctm (keys(), items(), get()) and write only to their local set, dict and
\* list.
lexicon_after(function, ctm) == ctm

\* The module's keyword list after a call: is_financial_query only iterates
\* over kw.
keywords_after(function, kw) == kw

(***************************************************************************)
(* Agent identifiers (str) and the selector                                *)
(***************************************************************************)
FinanceAgent == <<"F","i","n","a","n","c","e","A","g","e","n","t">>
YahooAgent == <<"Y","a","h","o","o","A","g","e","n","t">>
SECAgent == <<"S","E","C","A","g","e","n","t">>
RedditAgent == <<"R","e","d","d","i","t","A","g","e","n","t">>
GeneralAgent == <<"G","e","n","e","r","a","l","A","g","e","n","t">>

Agents == {FinanceAgent, YahooAgent, SECAgent, RedditAgent, GeneralAgent}

AgentOrders == {"finance_first", "reddit_first"}

\* Variant: a fallback that drops FinanceAgent when RedditAgent goes first.
reddit_only_plan(agent_order) ==
  IF agent_order = "finance_first"
    THEN <<FinanceAgent, RedditAgent>>
    ELSE <<RedditAgent>>

\* Variant: a fallback to the general agent.
general_plan(agent_order) == <<GeneralAgent>>

\* The except branch of determine_agents: the fixed default plan.
default_plan(agent_order) ==
  IF agent_order = "finance_first"
    THEN <<FinanceAgent, RedditAgent>>
    ELSE <<RedditAgent, FinanceAgent>>

\* Variant: a selector that leaves SECAgent out of the ticker plans.
plan_without_sec(is_finance, tickers, agent_order) ==
  IF is_finance.exc THEN default_plan(agent_order)
  ELSE IF is_finance.val THEN
    IF agent_order = "finance_first"
      THEN (IF tickers # <<>> THEN <<FinanceAgent, YahooAgent, RedditAgent>>
            ELSE <<FinanceAgent, RedditAgent>>)
      ELSE (IF tickers # <<>> THEN <<RedditAgent, FinanceAgent, YahooAgent>>
            ELSE <<RedditAgent, FinanceAgent>>)
  ELSE <<GeneralAgent>>

\* The body of determine_agents once is_financial_query has returned or
\* raised (is_finance is that call's outcome).
plan_for(is_finance, tickers, agent_order) ==
  IF is_finance.exc THEN default_plan(agent_order)
  ELSE IF is_finance.val THEN
    IF tickers # <<>> THEN
      IF agent_order = "finance_first"
        THEN <<FinanceAgent, YahooAgent, SECAgent, RedditAgent>>
        ELSE <<RedditAgent, FinanceAgent, YahooAgent, SECAgent>>
    ELSE
      IF agent_order = "finance_first"
        THEN <<FinanceAgent, RedditAgent>>
        ELSE <<RedditAgent, FinanceAgent>>
  ELSE <<GeneralAgent>>

\* determine_agents(query, companies, tickers, agent_order)
determine_agents(query, companies, tickers, agent_order) ==
  plan_for(is_financial_query(query, companies, tickers), tickers, agent_order)

(***************************************************************************)
(* Bounded inputs                                                          *)
(***************************************************************************)
\* most words in a generated query
MaxWords == 2
\* most entries in a caller-supplied companies / tickers list
MaxEntities == 1
\* most names in a list handed to map_to_tickers
MaxNames == 2

\* The words queries are made of, in the order they may follow each other.
Sentence ==
  << <<"h","i">>,
     <<"A","P","P","L","E","?">>,
     <<"a","p","p","l","e">>,
     <<"p","i","e">>,
     <<"p","i","n","e","a","p","p","l","e">>,
     <<"l","i","v","e","s","t","o","c","k">>,
     <<"s","t","o","c","k","s">>,
     <<"m","s","f","t">>,
     <<"g","o","o","g","l">>,
     <<"a","c","m","e">>,
     <<"G","O","O","G","L">> >>

\* " ".join(words)
RECURSIVE Join(_)
Join(words) ==
  IF words = <<>> THEN <<>>
  ELSE IF Len(words) = 1 THEN words[1]
  ELSE words[1] \o <<" ">> \o Join(Tail(words))

SeqsUpTo(S, n) == UNION { [1..k -> S] : k \in 0..n }

\* the word picks: up to MaxWords positions of Sentence, left to right
WordPicks ==
  { p \in SeqsUpTo(1..Len(Sentence), MaxWords) :
      \A i, j \in 1..Len(p) : i < j => p[i] < p[j] }

\* the query strings a caller may pass, the empty string and None included
Queries ==
  { Join([i \in 1..Len(p) |-> Sentence[p[i]]]) : p \in WordPicks } \cup {None}

CompanyPool == { <<"a","p","p","l","e">>, <<"a","l","p","h","a","b","e","t">> }
\* the names map_to_tickers is called with: mixed case, two names of one
\* ticker, a name the lexicon does not have
NamePool ==
  { <<"a","p","p","l","e">>, <<"G","o","o","g","l","e">>,
    <<"a","l","p","h","a","b","e","t">>, <<"a","c","m","e">> }
TickerPool == { <<"M","S","F","T">> }

\* the raw_data directory: absent, or holding these files
RawDataDirs ==
  { [exists |-> FALSE, files |-> {}],
    [exists |-> TRUE,
     files |-> { <<"a","c","m","e","-","1","0","k",".","p","d","f">>,
                 <<"T","e","s","l","a","-","Q","1",".","H","T","M","L">>,
                 <<"n","o","t","e","s",".","t","x","t">> }] }

\* every order list(set) may produce
Orderings(S) ==
  { f \in [1..Cardinality(S) -> S] :
      \A i, j \in 1..Cardinality(S) : f[i] = f[j] => i = j }

(***************************************************************************)
(* State                                                                   *)
(***************************************************************************)
VARIABLES
  query,            \* the query string of the call / of the request
  companies,        \* list of company names (argument, or derived by route)
  tickers,          \* list of tickers (argument, or derived by route)
  agent_order,      \* determine_agents' agent_order argument
  raw_data,         \* the raw_data directory on disk
  called,           \* which classification function was called
  ret,              \* what that call returned
  impl,             \* which dispatcher handles the request
  faults,           \* the steps of this request that raise
  pc,               \* position of the dispatcher
  agent_names,      \* the plan: selected agents in order
  task,             \* per plan position: "pending", "running" or "done"
  results,          \* per plan position: what the agent's task produced
  outcomes,         \* per plan position: what the agent call itself did
  responses,        \* dict agent-key -> entry
  context_updates,  \* dict merged from the agents' context_updates
  status,           \* overall status
  successful_agents,\* workflow: agents whose task succeeded, in plan order
  failed_agents,    \* workflow: agents whose task failed, in plan order
  execution_times,  \* workflow: the agents that have an execution time
  log,              \* records appended to monitor_logs.json
  response,         \* what the dispatcher returned to its caller
  lexicon,          \* shared_lib.constants.COMPANY_TICKER_MAP, a module global
  keywords,         \* shared_lib.constants.FINANCIAL_KEYWORDS, a module global
  history,          \* the calls of the classification functions made so far
  overtaken,        \* some agent completed before an agent earlier in the plan
  request_id,       \* mcp_request.request_id of the incoming request
  agent_request_id, \* request_id of the request handed to the agents
  invocations,      \* per plan position: how often the body of the agent's run was entered
  steps,            \* workflow: the steps that have run, in order
  improved_results, \* workflow: agent key -> {summary: ...} after improve_responses
  final_results,    \* workflow: the results generate_comprehensive_summary hands on
  stop_event,       \* workflow: the result of the StopEvent
  heap,             \* the MCPContext objects route has built, by object id
  request           \* per plan position: the id of the context of the request
                    \* object its task was handed

classifyVars == <<query, companies, tickers, agent_order, raw_data, called, ret>>
dispatchVars ==
  <<impl, faults, pc, agent_names, task, results, outcomes, responses,
    context_updates, status, successful_agents, failed_agents, execution_times, log, response,
    overtaken, request_id,
    agent_request_id,
    invocations,
    steps,
    improved_results,
    final_results,
    stop_event,
    heap, request>>
vars ==
  <<query, companies, tickers, agent_order, raw_data, called, ret,
    impl, faults, pc, agent_names, task, results, outcomes, responses,
    context_updates, status, successful_agents, failed_agents, execution_times,
    log, response, lexicon, keywords, history,
    overtaken, request_id,
    agent_request_id,
    invocations,
    steps,
    improved_results,
    final_results,
    stop_event,
    heap, request>>

moduleVars == <<lexicon, keywords, history>>
requestVars == <<heap, request>>

\* a request id as MCPRequest's default_factory makes it: str(uuid.uuid4())
DEFAULT_REQUEST_ID == <<"uuid4">>

\* the request ids a caller may send: a string, the empty string, null
RequestIds == { <<"r-1">>, <<>>, None }

\* mcp_request.request_id or "unknown"
or_unknown(id) == IF id \in {None, <<>>} THEN <<"unknown">> ELSE id

\* the state of the module after import, before any call
ModuleLoaded ==
  /\ lexicon = COMPANY_TICKER_MAP
  /\ keywords = FINANCIAL_KEYWORDS
  /\ history = <<>>

\* an empty dict
EmptyDict == [k \in {} |-> <<>>]

NoReturn == [exc |-> FALSE, val |-> <<"not called">>]

\* nothing returned to the caller yet
NoResponse ==
  [returned |-> FALSE, raised |-> FALSE, data |-> EmptyDict,
   context_updates |-> EmptyDict, status |-> "none", request_id |-> None]

\* the workflow has not emitted its StopEvent
NoStopEvent ==
  [status |-> "none", results |-> EmptyDict,
   metadata |-> [total_agents |-> 0, agent_order |-> <<>>]]

DispatcherIdle ==
  /\ stop_event = NoStopEvent
  /\ final_results = EmptyDict
  /\ improved_results = EmptyDict
  /\ steps = <<>>
  /\ invocations = <<>>
  /\ agent_request_id = None
  /\ request_id = DEFAULT_REQUEST_ID
  /\ overtaken = FALSE
  /\ heap = <<>>
  /\ request = <<>>
  /\ impl = "none"
  /\ faults = {}
  /\ pc = "idle"
  /\ agent_names = <<>>
  /\ task = <<>>
  /\ results = <<>>
  /\ outcomes = <<>>
  /\ responses = EmptyDict
  /\ context_updates = EmptyDict
  /\ status = "none"
  /\ successful_agents = <<>>
  /\ failed_agents = <<>>
  /\ execution_times = {}
  /\ log = <<>>
  /\ response = NoResponse

(***************************************************************************)
(* Direct calls of the classification functions on bounded inputs          *)
(***************************************************************************)
InitClassify ==
  /\ query = <<>>
  /\ companies = <<>>
  /\ tickers = <<>>
  /\ agent_order = "unset"
  /\ raw_data = [exists |-> FALSE, files |-> {}]
  /\ called = "none"
  /\ ret = NoReturn
  /\ DispatcherIdle
  /\ ModuleLoaded

CallExtractCompanies ==
  /\ called = "none" /\ pc = "idle"
  /\ \E q \in Queries, dir \in RawDataDirs :
       /\ query' = q
       /\ raw_data' = dir
       /\ ret' = Return(extract_companies(q, COMPANY_TICKER_MAP, dir))
  /\ called' = "extract_companies"
  /\ UNCHANGED <<companies, tickers, agent_order>>
  /\ UNCHANGED dispatchVars
  /\ UNCHANGED moduleVars

CallMapToTickers ==
  /\ called = "none" /\ pc = "idle"
  /\ \E cs \in SeqsUpTo(NamePool, MaxNames) :
     \E out \in Orderings(map_to_tickers(cs, COMPANY_TICKER_MAP)) :
       /\ companies' = cs
       /\ ret' = Return(out)
  /\ called' = "map_to_tickers"
  /\ UNCHANGED <<query, tickers, agent_order, raw_data>>
  /\ UNCHANGED dispatchVars
  /\ UNCHANGED moduleVars

CallIsFinancialQuery ==
  /\ called = "none" /\ pc = "idle"
  /\ \E q \in Queries, cs \in SeqsUpTo(CompanyPool, MaxEntities),
        ts \in SeqsUpTo(TickerPool, MaxEntities) :
       /\ query' = q
       /\ companies' = cs
       /\ tickers' = ts
       /\ ret' = is_financial_query(q, cs, ts)
  /\ called' = "is_financial_query"
  /\ UNCHANGED <<agent_order, raw_data>>
  /\ UNCHANGED dispatchVars
  /\ UNCHANGED moduleVars

CallDetermineAgents ==
  /\ called = "none" /\ pc = "idle"
  /\ \E q \in Queries, cs \in SeqsUpTo(CompanyPool, MaxEntities),
        ts \in SeqsUpTo(TickerPool, MaxEntities), order \in AgentOrders :
       /\ query' = q
       /\ companies' = cs
       /\ tickers' = ts
       /\ agent_order' = order
       /\ ret' = Return(determine_agents(q, cs, ts, order))
  /\ called' = "determine_agents"
  /\ UNCHANGED raw_data
  /\ UNCHANGED dispatchVars
  /\ UNCHANGED moduleVars

\* every lexicon company name as a query of its own
CompanyQueries == { COMPANY_TICKER_MAP[k][1] : k \in 1..Len(COMPANY_TICKER_MAP) }

\* The four functions called one after the other on one query, each on the
\* results of the ones before (tests/debug_router.py).
CallPipeline ==
  /\ called = "none" /\ pc = "idle"
  /\ \E q \in (Queries \ {None}) \cup CompanyQueries, dir \in RawDataDirs,
        order \in AgentOrders :
     \E cs \in Orderings(extract_companies(q, COMPANY_TICKER_MAP, dir)) :
     \E ts \in Orderings(map_to_tickers(cs, COMPANY_TICKER_MAP)) :
       /\ query' = q
       /\ raw_data' = dir
       /\ agent_order' = order
       /\ companies' = cs
       /\ tickers' = ts
       /\ ret' = Return(determine_agents(q, cs, ts, order))
  /\ called' = "pipeline"
  /\ UNCHANGED dispatchVars
  /\ UNCHANGED moduleVars

NextClassify ==
  \/ CallExtractCompanies
  \/ CallMapToTickers
  \/ CallIsFinancialQuery
  \/ CallDetermineAgents
  \/ CallPipeline

SpecClassify == InitClassify /\ [][NextClassify]_vars

(***************************************************************************)
(* Python values that flow between agents and dispatcher                   *)
(*   t  : the type ("dict", "str", "NoneType", "MCPResponse", ...)         *)
(*   d  : dict items, or the data of an MCPResponse                        *)
(*   cu : the context_updates of an MCPResponse                            *)
(*   s  : the text of a str, or str(e) of an exception                     *)
(***************************************************************************)
PyVal(t, d, cu, s) == [t |-> t, d |-> d, cu |-> cu, s |-> s]
Str(text) == PyVal("str", EmptyDict, EmptyDict, text)
Dict(items) == PyVal("dict", items, EmptyDict, <<>>)
PyNone == PyVal("NoneType", EmptyDict, EmptyDict, <<>>)
\* an MCPResponse; context_updates None and {} are both falsy
MCPResponse(data, updates) == PyVal("MCPResponse", data, updates, <<>>)
\* an exception raised by the call, str(e) = text
Exc(text) == PyVal("Exception", EmptyDict, EmptyDict, text)
\* the coroutine object an un-awaited async def call returns
Coroutine == PyVal("coroutine", EmptyDict, EmptyDict, <<>>)
\* a plain object whose __str__ raises; s is the text of that exception
Unprintable == PyVal("object", EmptyDict, EmptyDict, <<"__str__ failed">>)

ERROR_KEY == <<"e","r","r","o","r">>
RESPONSE_KEY == <<"r","e","s","p","o","n","s","e">>

\* {key: value}
Single(key, value) == [k \in {key} |-> value]

\* d.update(u); d[key] = value
Update(d, u) ==
  [k \in DOMAIN d \cup DOMAIN u |-> IF k \in DOMAIN u THEN u[k] ELSE d[k]]

\* str(x) for the values wrapped as {"response": str(result)}
str_of(x) == IF x.t = "str" THEN x.s ELSE <<"<", x.t, " object>">>

\* str.replace(old, new)
RECURSIVE ReplaceFrom(_, _, _, _)
ReplaceFrom(s, old, new, i) ==
  IF i > Len(s) THEN <<>>
  ELSE IF MatchAt(s, old, i) THEN new \o ReplaceFrom(s, old, new, i + Len(old))
  ELSE <<s[i]>> \o ReplaceFrom(s, old, new, i + 1)

str_replace(s, old, new) == ReplaceFrom(s, old, new, 1)

\* agent_name.lower().replace("agent", "")
key_name(agent_name) ==
  str_replace(Lower(agent_name), <<"a","g","e","n","t">>, <<>>)

(***************************************************************************)
(* The agents: external collaborators                                      *)
(***************************************************************************)
\* a context_updates key every agent may set, and one of its own
SHARED_UPDATE_KEY == <<"last_access">>
own_update_key(agent_name) == <<"last_">> \o key_name(agent_name)

agent_updates(agent_name) ==
  Update(Single(SHARED_UPDATE_KEY, Str(agent_name)),
         Single(own_update_key(agent_name), Str(agent_name)))

\* What agent.run(request) may do: return an MCPResponse whose data is keyed
\* by the agent's short name (with or without context_updates), return an
\* MCPResponse whose data is {"error": ...}, return None, a plain error dict
\* or a plain value (a str, or an object str() cannot render), or raise.
AgentOutcomes(agent_name) ==
  { MCPResponse(Single(key_name(agent_name), Str(<<"data of">> \o agent_name)), u) :
      u \in {EmptyDict, agent_updates(agent_name)} }
  \cup { MCPResponse(Single(ERROR_KEY, Str(<<"failed">>)), EmptyDict),
         PyNone,
         Dict(Single(ERROR_KEY, Str(<<"unavailable">>))),
         Str(<<"text">>),
         Unprintable,
         Exc(<<"boom">>) }

Routers == {"RouterAgent", "RouterCrew", "LlamaIndexRouter"}
Impls == Routers \cup {"FinanceAgentsWorkflow"}

\* The dispatchers that call agent.run in the event loop without awaiting
\* it: the call returns before any other task of the gather can run.
blocking(dispatcher, agent_name) ==
  \/ dispatcher = "LlamaIndexRouter"
  \/ dispatcher = "FinanceAgentsWorkflow" /\ agent_name # RedditAgent

\* How often the one evaluation of agent.run(...) in run_agent /
\* execute_single_agent enters the body of run: calling an async def without
\* awaiting the coroutine it returns executes none of its body.
entered(dispatcher, agent_name) ==
  IF dispatcher = "LlamaIndexRouter" /\ agent_name = RedditAgent THEN 0 ELSE 1

\* What the expression the dispatcher evaluates for the agent may yield.
\* LlamaIndexRouter.run_agent returns RedditAgent's async run() un-awaited.
call_outcomes(dispatcher, agent_name) ==
  IF dispatcher = "LlamaIndexRouter" /\ agent_name = RedditAgent
    THEN {Coroutine, Exc(<<"boom">>)}
    ELSE AgentOutcomes(agent_name)

\* run_agent / execute_single_agent: the value the task hands to gather.
run_agent(dispatcher, agent_name, outcome) ==
  CASE dispatcher \in {"RouterAgent", "RouterCrew"} ->
         IF outcome.t = "Exception"
           THEN Dict(Single(ERROR_KEY, Str(outcome.s)))
           ELSE outcome
    [] dispatcher = "LlamaIndexRouter" ->
         IF outcome.t = "Exception"
           THEN Dict(Single(ERROR_KEY,
                            Str(<<"Error running ">> \o agent_name \o <<": ">> \o outcome.s)))
           ELSE outcome
    [] OTHER ->
         \* FinanceAgentsWorkflow: (agent_name, agent_data, success, ..)
         IF outcome.t = "Exception"
           THEN PyVal("failed", EmptyDict, EmptyDict, outcome.s)
           ELSE PyVal("success",
                      Single(<<"agent_data">>,
                             \* result.data, else result.__dict__, else result
                             IF outcome.t = "MCPResponse" THEN Dict(outcome.d)
                             ELSE IF outcome.t = "object" THEN Dict(EmptyDict)
                             ELSE outcome),
                      EmptyDict, <<>>)

(***************************************************************************)
(* Router: result processing                                               *)
(***************************************************************************)
\* One iteration of  for agent_name, result in zip(agent_names, results)
\* acc = [responses, context_updates, status, raised]; raised is the text of
\* the exception that left the loop, None while the loop runs.
merge_one(dispatcher, acc, agent_name, result) ==
  LET key == key_name(agent_name)
      put(entry) == Update(acc.responses, Single(key, entry))
  IN
  IF result.t = "Exception" THEN
    [acc EXCEPT !.responses = put(Dict(Single(ERROR_KEY, Str(result.s)))),
                !.status = "partial_failure"]
  ELSE IF result.t = "NoneType" THEN
    [acc EXCEPT !.responses =
                  put(Dict(Single(ERROR_KEY, Str(<<"Agent returned no response">>)))),
                !.status = "partial_failure"]
  ELSE IF result.t = "MCPResponse" THEN
    [acc EXCEPT !.responses =
                  IF dispatcher = "LlamaIndexRouter"
                    THEN Update(acc.responses, result.d)
                    ELSE put(Dict(result.d)),
                !.context_updates =
                  IF result.cu # EmptyDict
                    THEN Update(acc.context_updates, result.cu)
                    ELSE acc.context_updates]
  ELSE IF result.t = "dict" THEN
    [acc EXCEPT !.responses = put(result)]
  ELSE IF result.t = "object" THEN
    \* str(result) raises: the assignment does not happen
    [acc EXCEPT !.raised = result.s]
  ELSE
    [acc EXCEPT !.responses = put(Dict(Single(RESPONSE_KEY, Str(str_of(result)))))]

\* Variant: the loop taken from the last plan position down to the first.
RECURSIVE merge_reversed(_, _, _, _, _)
merge_reversed(dispatcher, acc, names, res, i) ==
  IF i > Len(names) \/ acc.raised # None THEN acc
  ELSE merge_reversed(dispatcher,
                      merge_one(dispatcher, acc, names[Len(names) + 1 - i],
                                res[Len(names) + 1 - i]),
                      names, res, i + 1)

\* the whole loop, from plan position i on; an exception ends it
RECURSIVE merge_results(_, _, _, _, _)
merge_results(dispatcher, acc, names, res, i) ==
  IF i > Len(names) \/ acc.raised # None THEN acc
  ELSE merge_results(dispatcher, merge_one(dispatcher, acc, names[i], res[i]),
                     names, res, i + 1)

\* the accumulators as route initialises them
merge_start ==
  [responses |-> EmptyDict, context_updates |-> EmptyDict, status |-> "success",
   raised |-> None]

\* the record route appends to monitor_logs.json
log_record(dispatcher, cs, ts, names, st) ==
  [router |-> dispatcher, started_timestamp |-> TRUE, completed_timestamp |-> TRUE,
   companies |-> cs, tickers |-> ts, sub_agents |-> names, status |-> st]

\* the MCPResponse route returns
returned(data, updates, st) ==
  [returned |-> TRUE, raised |-> FALSE, data |-> data,
   context_updates |-> updates, status |-> st,
   request_id |-> IF impl = "LlamaIndexRouter"
                    THEN request_id
                    ELSE or_unknown(request_id)]

\* the plan order each dispatcher asks determine_agents for
order_of(dispatcher) ==
  IF dispatcher \in {"RouterAgent", "RouterCrew"}
    THEN "reddit_first" ELSE "finance_first"

(***************************************************************************)
(* Requests                                                                *)
(***************************************************************************)
\* "Compare Apple and Microsoft stocks"
compare_query ==
  <<"C","o","m","p","a","r","e"," ","A","p","p","l","e"," ","a","n","d"," ","M","i","c","r","o","s","o","f","t"," ","s","t","o","c","k","s">>

\* "What's the weather today?"
weather_query ==
  <<"W","h","a","t","'","s"," ","t","h","e"," ","w","e","a","t","h","e","r"," ","t","o","d","a","y","?">>

RouteQueries ==
  { Join(<<Sentence[3], Sentence[7]>>),   \* "apple stocks"
    Join(<<Sentence[7]>>),                \* "stocks"
    Join(<<Sentence[3], Sentence[4]>>),   \* "apple pie"
    <<>> }

\* the two end-to-end scenario queries
PipelineQueries == { compare_query, weather_query }

\* MCPContext(user_query=.., companies=.., tickers=.., extracted_terms=..):
\* a mutable object; the dict extracted_terms is kept as its set of keys
MCPContext(cs, ts, terms) ==
  [companies |-> cs, tickers |-> ts, extracted_terms |-> terms]

\* the extracted_terms each dispatcher builds the context with
extracted_terms(dispatcher) ==
  IF dispatcher = "LlamaIndexRouter" THEN {<<"agent_names">>} ELSE {}

\* [self.run_agent(name, updated_request, bg) for name in agent_names] and
\* [execute_single_agent(agent) for agent in ev.selected_agents], where the
\* closure reads the one local request: the context object, of id obj, that
\* the request handed to each task refers to
fan_out(names, obj) == [i \in 1..Len(names) |-> obj]

\* the steps before the fan-out that may raise for a request
DispatchFaults == SUBSET {"classify", "context"}

\* str(e) of the exception the construction of MCPContext / MCPRequest raises
CONTEXT_ERROR == <<"context error">>

InitDispatch ==
  /\ impl \in Impls
  /\ query \in RouteQueries
  /\ companies = <<>>
  /\ tickers = <<>>
  /\ agent_order = order_of(impl)
  /\ raw_data \in { dir \in RawDataDirs : dir.exists }
  /\ called = "none"
  /\ ret = NoReturn
  /\ faults = {}
  /\ pc = "start"
  /\ agent_names = <<>>
  /\ task = <<>>
  /\ results = <<>>
  /\ outcomes = <<>>
  /\ responses = EmptyDict
  /\ context_updates = EmptyDict
  /\ status = "none"
  /\ successful_agents = <<>>
  /\ failed_agents = <<>>
  /\ execution_times = {}
  /\ log = <<>>
  /\ response = NoResponse
  /\ overtaken = FALSE
  /\ request_id = DEFAULT_REQUEST_ID
  /\ agent_request_id = None
  /\ invocations = <<>>
  /\ steps = <<>>
  /\ improved_results = EmptyDict
  /\ final_results = EmptyDict
  /\ stop_event = NoStopEvent
  /\ heap = <<>>
  /\ request = <<>>
  /\ ModuleLoaded

\* not yet produced
Pending == PyVal("pending", EmptyDict, EmptyDict, <<>>)

\* Variant: the tail of route without the try/except around the write of
\* the audit record, so that a failing write leaves route as an exception.
FinishUncaught(f, cs, ts, names, rsp, upd, st) ==
  \E writable \in BOOLEAN :
    /\ faults' = IF writable THEN f ELSE f \cup {"log"}
    /\ log' = IF writable
                THEN Append(log, log_record(impl, cs, ts, names, st))
                ELSE log
    /\ responses' = rsp
    /\ context_updates' = upd
    /\ status' = st
    /\ response' =
         IF writable
           THEN returned(IF rsp = EmptyDict /\ impl # "LlamaIndexRouter"
                           THEN Single(ERROR_KEY, Str(<<"No agents responded">>))
                           ELSE rsp,
                         upd, st)
           ELSE [NoResponse EXCEPT !.raised = TRUE]
    /\ pc' = "done"

\* The tail of RouterAgent.route / RouterCrew.route and of the try block of
\* LlamaIndexRouter.route: append the audit record (the write may fail, which
\* is caught), then return the MCPResponse.
Finish(f, cs, ts, names, rsp, upd, st) ==
  \E writable \in BOOLEAN :
    /\ faults' = IF writable THEN f ELSE f \cup {"log"}
    /\ log' = IF writable
                THEN Append(log, log_record(impl, cs, ts, names, st))
                ELSE log
    /\ responses' = rsp
    /\ context_updates' = upd
    /\ status' = st
    /\ response' =
         returned(IF rsp = EmptyDict /\ impl # "LlamaIndexRouter"
                    THEN Single(ERROR_KEY, Str(<<"No agents responded">>))
                    ELSE rsp,
                  upd, st)
    /\ pc' = "done"

\* The except branch of LlamaIndexRouter.route: monitor.log_error, then a
\* failed MCPResponse; no audit record is written.
FailLlamaIndex(f, e) ==
  /\ faults' = f
  /\ status' = "failed"
  /\ response' = returned(Single(ERROR_KEY, Str(<<"Routing failed: ">> \o e)),
                          EmptyDict, "failed")
  /\ pc' = "done"
  /\ UNCHANGED <<log, responses, context_updates>>

\* route, from its entry to  await asyncio.gather(...): extraction, ticker
\* mapping, selection, context construction.  "classify" in f:
\* is_financial_query raises inside determine_agents; "context" in f: building
\* the MCPContext / MCPRequest raises.
Dispatch ==
  /\ pc = "start" /\ impl \in Routers
  /\ \E f \in DispatchFaults :
     \E cs \in Orderings(extract_companies(query, COMPANY_TICKER_MAP, raw_data)) :
     \E ts \in Orderings(map_to_tickers(cs, COMPANY_TICKER_MAP)) :
       LET names == plan_for(IF "classify" \in f THEN Raise
                             ELSE is_financial_query(query, cs, ts),
                             ts, order_of(impl))
           failed == "context" \in f
       IN
       /\ companies' = cs
       /\ tickers' = ts
       /\ agent_names' = names
       /\ task' = IF failed THEN <<>> ELSE [i \in 1..Len(names) |-> "pending"]
       /\ results' = IF failed THEN <<>> ELSE [i \in 1..Len(names) |-> Pending]
       /\ outcomes' = IF failed THEN <<>> ELSE [i \in 1..Len(names) |-> Pending]
       /\ heap' = IF failed THEN <<>>
                  ELSE <<MCPContext(cs, ts, extracted_terms(impl))>>
       /\ request' = IF failed THEN <<>> ELSE fan_out(names, 1)
       /\ agent_request_id' = IF failed THEN None ELSE request_id
       /\ invocations' = IF failed THEN <<>> ELSE [i \in 1..Len(names) |-> 0]
       /\ IF ~failed THEN
            /\ pc' = "gather"
            /\ faults' = f
            /\ UNCHANGED <<responses, context_updates, status, response, log>>
          ELSE IF impl = "LlamaIndexRouter" THEN
            FailLlamaIndex(f, CONTEXT_ERROR)
          ELSE
            Finish(f, cs, ts, names,
                   Single(ERROR_KEY, Str(CONTEXT_ERROR)), EmptyDict, "failed")
  /\ UNCHANGED moduleVars
  /\ UNCHANGED stop_event
  /\ UNCHANGED final_results
  /\ UNCHANGED improved_results
  /\ UNCHANGED steps
  /\ UNCHANGED request_id
  /\ UNCHANGED overtaken
  /\ UNCHANGED <<query, agent_order, raw_data, called, ret, impl,
                 successful_agents, failed_agents, execution_times>>

\* selected_agents of the event analyze_query returns from its except branch
ANALYSIS_FALLBACK == <<FinanceAgent, RedditAgent>>

\* FinanceAgentsWorkflow.analyze_query: a step of the try block may raise
\* ("analyze"), and so may the classification inside determine_agents
\* ("classify").
AnalyzeQuery ==
  /\ pc = "start" /\ impl = "FinanceAgentsWorkflow"
  /\ \E f \in SUBSET {"classify", "analyze"} :
     \E cs \in Orderings(extract_companies(query, COMPANY_TICKER_MAP, raw_data)) :
     \E ts \in Orderings(map_to_tickers(cs, COMPANY_TICKER_MAP)) :
       /\ faults' = f
       /\ IF "analyze" \in f THEN
            \* the except branch of the step
            /\ companies' = <<>>
            /\ tickers' = <<>>
            /\ agent_names' = ANALYSIS_FALLBACK
          ELSE
            /\ companies' = cs
            /\ tickers' = ts
            /\ agent_names' = plan_for(IF "classify" \in f THEN Raise
                                       ELSE is_financial_query(query, cs, ts),
                                       ts, order_of(impl))
  /\ steps' = Append(steps, "analyze_query")
  /\ pc' = "analyzed"
  /\ UNCHANGED moduleVars
  /\ UNCHANGED stop_event
  /\ UNCHANGED final_results
  /\ UNCHANGED improved_results
  /\ UNCHANGED invocations
  /\ UNCHANGED agent_request_id
  /\ UNCHANGED request_id
  /\ UNCHANGED overtaken
  /\ UNCHANGED requestVars
  /\ UNCHANGED <<query, agent_order, raw_data, called, ret, impl, task, results,
                 outcomes, responses, context_updates, status, successful_agents,
                 failed_agents, execution_times, log, response>>

\* FinanceAgentsWorkflow.execute_agents up to  await asyncio.gather(...)
ExecuteAgents ==
  /\ pc = "analyzed"
  /\ task' = [i \in 1..Len(agent_names) |-> "pending"]
  /\ results' = [i \in 1..Len(agent_names) |-> Pending]
  /\ outcomes' = [i \in 1..Len(agent_names) |-> Pending]
  /\ heap' = <<MCPContext(companies, tickers, extracted_terms(impl))>>
  /\ request' = fan_out(agent_names, 1)
  /\ agent_request_id' = DEFAULT_REQUEST_ID
  /\ invocations' = [i \in 1..Len(agent_names) |-> 0]
  /\ steps' = Append(steps, "execute_agents")
  /\ pc' = "gather"
  /\ UNCHANGED moduleVars
  /\ UNCHANGED stop_event
  /\ UNCHANGED final_results
  /\ UNCHANGED improved_results
  /\ UNCHANGED request_id
  /\ UNCHANGED overtaken
  /\ UNCHANGED <<query, companies, tickers, agent_order, raw_data, called, ret,
                 impl, faults, agent_names, responses, context_updates, status,
                 successful_agents, failed_agents, execution_times, log, response>>

(***************************************************************************)
(* The agent tasks of one gather                                           *)
(***************************************************************************)
\* A task the event loop is inside of: no other coroutine can run.
LoopHeld ==
  \E j \in 1..Len(agent_names) :
    task[j] = "running" /\ blocking(impl, agent_names[j])

\* The event loop starts the task of plan position i (tasks start in the
\* order gather received them).
StartAgent(i) ==
  /\ pc = "gather"
  /\ task[i] = "pending"
  /\ \A j \in 1..(i - 1) : task[j] # "pending"
  /\ ~LoopHeld
  /\ task' = [task EXCEPT ![i] = "running"]
  /\ UNCHANGED moduleVars
  /\ UNCHANGED stop_event
  /\ UNCHANGED final_results
  /\ UNCHANGED improved_results
  /\ UNCHANGED steps
  /\ UNCHANGED invocations
  /\ UNCHANGED agent_request_id
  /\ UNCHANGED request_id
  /\ UNCHANGED overtaken
  /\ UNCHANGED requestVars
  /\ UNCHANGED <<query, companies, tickers, agent_order, raw_data, called, ret,
                 impl, faults, pc, agent_names, results, outcomes, responses,
                 context_updates, status, successful_agents, failed_agents,
                 execution_times, log, response>>

\* The agent call of plan position i returns or raises; run_agent /
\* execute_single_agent turns that into the task's result.  While a task holds
\* the event loop only that task makes progress.
FinishAgent(i) ==
  /\ pc = "gather"
  /\ task[i] = "running"
  /\ LoopHeld => blocking(impl, agent_names[i])
  /\ \E outcome \in call_outcomes(impl, agent_names[i]) :
       /\ outcomes' = [outcomes EXCEPT ![i] = outcome]
       /\ results' = [results EXCEPT ![i] = run_agent(impl, agent_names[i], outcome)]
  /\ task' = [task EXCEPT ![i] = "done"]
  /\ overtaken' = (overtaken \/ \E j \in 1..(i - 1) : task[j] # "done")
  /\ invocations' = [invocations EXCEPT
                       ![i] = @ + entered(impl, agent_names[i])]
  /\ UNCHANGED moduleVars
  /\ UNCHANGED stop_event
  /\ UNCHANGED final_results
  /\ UNCHANGED improved_results
  /\ UNCHANGED steps
  /\ UNCHANGED agent_request_id
  /\ UNCHANGED request_id
  /\ UNCHANGED requestVars
  /\ UNCHANGED <<query, companies, tickers, agent_order, raw_data, called, ret,
                 impl, faults, pc, agent_names, responses, context_updates,
                 status, successful_agents, failed_agents, execution_times,
                 log, response>>

\* asyncio.gather has returned to the awaiting dispatcher: with
\* return_exceptions=True (the routers) when every task is done; without it
\* (the workflow) also as soon as one task has raised.
return_exceptions(dispatcher) == dispatcher \in Routers

gather_raised ==
  /\ ~return_exceptions(impl)
  /\ \E j \in 1..Len(agent_names) : task[j] = "done" /\ results[j].t = "Exception"

\* Variant: a gather that returns as soon as the first task is done.
first_completed ==
  \E j \in 1..Len(agent_names) : task[j] = "done"

gather_returned ==
  IF gather_raised THEN TRUE
  ELSE \A j \in 1..Len(agent_names) : task[j] = "done"

\* route, from the return of gather to its return statement.  An exception
\* in the result loop is caught by the except clause of the enclosing try:
\* RouterAgent / RouterCrew add responses["error"] to what the loop had
\* stored and go on to the audit record; LlamaIndexRouter returns the failed
\* MCPResponse of its except branch.
Complete ==
  /\ pc = "gather" /\ impl \in Routers
  /\ gather_returned
  /\ \E acc \in {merge_results(impl, merge_start, agent_names, results, 1)} :
       IF acc.raised = None THEN
         Finish(faults, companies, tickers, agent_names,
                acc.responses, acc.context_updates, acc.status)
       ELSE IF impl = "LlamaIndexRouter" THEN
         FailLlamaIndex(faults \cup {"merge"}, acc.raised)
       ELSE
         Finish(faults \cup {"merge"}, companies, tickers, agent_names,
                Update(acc.responses, Single(ERROR_KEY, Str(acc.raised))),
                acc.context_updates, "failed")
  /\ UNCHANGED moduleVars
  /\ UNCHANGED stop_event
  /\ UNCHANGED final_results
  /\ UNCHANGED improved_results
  /\ UNCHANGED steps
  /\ UNCHANGED invocations
  /\ UNCHANGED agent_request_id
  /\ UNCHANGED request_id
  /\ UNCHANGED overtaken
  /\ UNCHANGED requestVars
  /\ UNCHANGED <<query, companies, tickers, agent_order, raw_data, called, ret,
                 impl, agent_names, task, results, outcomes, successful_agents,
                 failed_agents, execution_times>>

\* the positions of the plan whose task result has success = b, in order
RECURSIVE select_agents(_, _, _)
select_agents(names, res, wanted) ==
  IF names = <<>> THEN <<>>
  ELSE (IF Head(res).t = wanted THEN <<Head(names)>> ELSE <<>>)
         \o select_agents(Tail(names), Tail(res), wanted)

\* Variant: a loop that stores the data of every tuple, failed ones included.
RECURSIVE collect_every(_, _, _)
collect_every(acc, names, res) ==
  IF names = <<>> THEN acc
  ELSE collect_every(
         Update(acc, Single(Lower(Head(names)),
                            IF Head(res).t = "success"
                              THEN Head(res).d[<<"agent_data">>]
                              ELSE Dict(EmptyDict))),
         Tail(names), Tail(res))

\* agent_results after the loop over the gathered tuples
RECURSIVE collect_results(_, _, _)
collect_results(acc, names, res) ==
  IF names = <<>> THEN acc
  ELSE collect_results(
         IF Head(res).t = "success"
           THEN Update(acc, Single(Lower(Head(names)), Head(res).d[<<"agent_data">>]))
           ELSE acc,
         Tail(names), Tail(res))

\* FinanceAgentsWorkflow.execute_agents after the gather: a raising gather
\* ends the step with that exception, else the results are sorted into
\* agent_results / successful_agents / failed_agents / execution_times.
CollectResults ==
  /\ pc = "gather" /\ impl = "FinanceAgentsWorkflow"
  /\ gather_returned
  /\ IF gather_raised THEN
       /\ pc' = "aborted"
       /\ response' = [NoResponse EXCEPT !.raised = TRUE]
       /\ UNCHANGED <<responses, successful_agents, failed_agents, execution_times>>
     ELSE
       /\ pc' = "executed"
       /\ responses' = collect_results(EmptyDict, agent_names, results)
       /\ successful_agents' = select_agents(agent_names, results, "success")
       /\ failed_agents' = select_agents(agent_names, results, "failed")
       /\ execution_times' = { agent_names[i] : i \in 1..Len(agent_names) }
       /\ UNCHANGED response
  /\ UNCHANGED moduleVars
  /\ UNCHANGED stop_event
  /\ UNCHANGED final_results
  /\ UNCHANGED improved_results
  /\ UNCHANGED steps
  /\ UNCHANGED invocations
  /\ UNCHANGED agent_request_id
  /\ UNCHANGED request_id
  /\ UNCHANGED overtaken
  /\ UNCHANGED requestVars
  /\ UNCHANGED <<query, companies, tickers, agent_order, raw_data, called, ret,
                 impl, faults, agent_names, task, results, outcomes,
                 context_updates, status, log>>

NextDispatch ==
  \/ Dispatch
  \/ AnalyzeQuery
  \/ ExecuteAgents
  \/ \E i \in DOMAIN task : StartAgent(i)
  \/ \E i \in DOMAIN task : FinishAgent(i)
  \/ Complete
  \/ CollectResults

Spec == InitDispatch /\ [][NextDispatch]_vars

(***************************************************************************)
(* Properties of the dispatchers                                           *)
(***************************************************************************)
\* the fan-out of this request took place
dispatched == task # <<>>

\* route has returned after a fan-out
routed == impl \in Routers /\ pc = "done" /\ dispatched

\* {"error": ...}
IsErrorRecord(v) == v.t = "dict" /\ ERROR_KEY \in DOMAIN v.d

\* the agent call of plan position i returned an envelope with ordinary data
Succeeded(i) ==
  outcomes[i].t = "MCPResponse" /\ ERROR_KEY \notin DOMAIN outcomes[i].d

C2_RaiseIsPartialFailure ==
  (routed /\ impl = "RouterAgent" /\ Len(agent_names) >= 2) =>
    \A i \in 1..Len(agent_names) :
      ( /\ outcomes[i].t = "Exception"
        /\ \A j \in 1..Len(agent_names) \ {i} : Succeeded(j) )
      =>
      /\ response.status = "partial_failure"
      /\ response.data[key_name(agent_names[i])]
           = Dict(Single(ERROR_KEY, Str(outcomes[i].s)))
      /\ \A j \in 1..Len(agent_names) \ {i} :
           response.data[key_name(agent_names[j])] = Dict(outcomes[j].d)

\* C3: route never returns status success when the entry of some selected
\* agent in the returned data is an error record.
C3_ErrorRecordNotSuccess ==
  routed =>
    ( (\E i \in 1..Len(agent_names) :
         /\ key_name(agent_names[i]) \in DOMAIN response.data
         /\ IsErrorRecord(response.data[key_name(agent_names[i])]))
      => response.status # "success" )

\* C4: when the fan-out is over, every selected agent's run was started and
\* ran to its own completion: it returned a result or raised.
C4_EveryAgentRanToCompletion ==
  (pc \in {"done", "executed", "aborted"} /\ dispatched) =>
    \A i \in 1..Len(agent_names) :
      /\ task[i] = "done"
      /\ outcomes[i].t \notin {"pending", "coroutine"}

\* C5: the selected agents are invoked concurrently: while the run of one
\* selected agent is in progress the run of the next selected agent can
\* start, so that two runs are in progress at once.
C5_RunsOverlap ==
  \A i, j \in DOMAIN task :
    ( /\ pc = "gather"
      /\ task[i] = "running"
      /\ task[j] = "pending"
      /\ \A k \in 1..(j - 1) : task[k] # "pending" )
    => ENABLED StartAgent(j)

(***************************************************************************)
(* Properties of the classification functions                              *)
(***************************************************************************)
Range(f) == { f[i] : i \in DOMAIN f }

InitAll == InitClassify \/ InitDispatch

NextAll ==
  \/ CallExtractCompanies
  \/ CallMapToTickers
  \/ CallIsFinancialQuery
  \/ CallDetermineAgents
  \/ CallPipeline
  \/ Dispatch
  \/ AnalyzeQuery
  \/ ExecuteAgents
  \/ \E i \in DOMAIN task : StartAgent(i)
  \/ \E i \in DOMAIN task : FinishAgent(i)
  \/ Complete
  \/ CollectResults

SpecAll == InitAll /\ [][NextAll]_vars

\* C7: determine_agents never raises; when classification fails inside it, it
\* returns the default plan of FinanceAgent and RedditAgent in the order of
\* agent_order, and a route whose classification failed goes on to run the
\* agents of that plan instead of failing the request.
C7_FailSafeDefaultPlan ==
  /\ called = "determine_agents" =>
       /\ ~ret.exc
       /\ is_financial_query(query, companies, tickers).exc =>
            ret.val = IF agent_order = "finance_first"
                        THEN <<FinanceAgent, RedditAgent>>
                        ELSE <<RedditAgent, FinanceAgent>>
  /\ ("classify" \in faults /\ pc # "start") =>
       agent_names = IF order_of(impl) = "finance_first"
                       THEN <<FinanceAgent, RedditAgent>>
                       ELSE <<RedditAgent, FinanceAgent>>
  /\ ("classify" \in faults /\ "context" \notin faults
        /\ pc \in {"gather", "done", "executed"}) =>
       Len(task) = 2
  /\ ("classify" \in faults /\ faults \cap {"context", "merge"} = {}
        /\ pc = "done") =>
       /\ response.returned
       /\ response.status # "failed"
       /\ \A i \in 1..Len(task) : task[i] = "done"

\* RouterAgent.route has returned after a failed classification, having run
\* both agents of the default plan
C7_RoutedOnDefaultPlan ==
  /\ impl = "RouterAgent"
  /\ pc = "done"
  /\ faults = {"classify"}
  /\ Len(task) = 2
  /\ \A i \in 1..Len(task) : outcomes[i].t = "MCPResponse"
  /\ response.status = "success"

\* the lowered, trimmed query
query_lower == Strip(Lower(query))

\* position p of s lies inside a whole-word occurrence of name
InWholeWord(s, name, p) ==
  \E i \in 1..Len(s) :
    /\ i <= p /\ p < i + Len(name)
    /\ i + Len(name) - 1 <= Len(s)
    /\ SubSeq(s, i, i + Len(name) - 1) = name
    /\ (i = 1 \/ s[i - 1] \notin WordChars)
    /\ (i + Len(name) - 1 = Len(s) \/ s[i + Len(name)] \notin WordChars)

\* s with the positions in drop left out
RECURSIVE Without(_, _, _)
Without(s, drop, p) ==
  IF p > Len(s) THEN <<>>
  ELSE (IF p \in drop THEN <<>> ELSE <<s[p]>>) \o Without(s, drop, p + 1)

\* the lowered query with every whole-word occurrence of each company name and
\* each lowered ticker removed, trimmed
remaining_words ==
  LET names == Range(companies) \cup { Lower(tickers[i]) : i \in DOMAIN tickers }
      drop == { p \in 1..Len(query_lower) :
                  \E n \in names : InWholeWord(query_lower, n, p) }
  IN Strip(Without(query_lower, drop, 1))

\* some financial keyword is a substring of s
KeywordInside(s) ==
  \E k \in Range(FINANCIAL_KEYWORDS) :
    \E i \in 1..Len(s) :
      i + Len(k) - 1 <= Len(s) /\ SubSeq(s, i, i + Len(k) - 1) = k

apple_pie == <<"a","p","p","l","e"," ","p","i","e">>

\* C8: with a company or ticker given, is_financial_query is true when the
\* query without those names is empty or at most 2 characters long, and
\* otherwise true exactly when a financial keyword is a substring of what
\* remains; "apple pie" with companies ["apple"] is not financial.
C8_StepA ==
  (called = "is_financial_query" /\ query # None
     /\ (companies # <<>> \/ tickers # <<>>)) =>
    /\ ~ret.exc
    /\ ret.val = IF Len(remaining_words) <= 2 THEN TRUE
                 ELSE KeywordInside(remaining_words)
    /\ (query = apple_pie /\ companies = << <<"a","p","p","l","e">> >>
          /\ tickers = <<>>) => ret.val = FALSE

\* is_financial_query("apple pie", ["apple"], []) returned False
C8_ApplePie ==
  /\ called = "is_financial_query"
  /\ query = apple_pie
  /\ companies = << <<"a","p","p","l","e">> >>
  /\ tickers = <<>>
  /\ ret = Return(FALSE)

\* C9: with no company and no ticker, is_financial_query is true exactly when
\* the lowered, trimmed query has a financial keyword as a substring, inside
\* a longer word or not.
C9_StepB ==
  (called = "is_financial_query" /\ query # None
     /\ companies = <<>> /\ tickers = <<>>) =>
    ret = Return(KeywordInside(query_lower))

\* is_financial_query("livestock", [], []) returned True: the keyword "stock"
\* is only part of a word
C9_KeywordInsideWord ==
  /\ called = "is_financial_query"
  /\ query = <<"l","i","v","e","s","t","o","c","k">>
  /\ companies = <<>> /\ tickers = <<>>
  /\ ret = Return(TRUE)

\* the characters of the query, each letter in lower case
lowered ==
  [p \in 1..Len(query) |->
     IF \E i \in 1..26 : UpperCase[i] = query[p]
       THEN LowerCase[CHOOSE i \in 1..26 : UpperCase[i] = query[p]]
       ELSE query[p]]

\* C10: every lexicon company name that occurs in the query as a whole word,
\* in any letter case, is in the result of extract_companies.
C10_WholeWordNameExtracted ==
  (called = "extract_companies" /\ query # None) =>
    \A k \in 1..Len(COMPANY_TICKER_MAP) :
      (\E p \in 1..Len(query) : InWholeWord(lowered, COMPANY_TICKER_MAP[k][1], p))
        => COMPANY_TICKER_MAP[k][1] \in ret.val

\* extract_companies found "apple" in a query that spells it APPLE?
C10_UpperCaseApple ==
  /\ called = "extract_companies"
  /\ query = <<"A","P","P","L","E","?">>
  /\ ret.val = { <<"a","p","p","l","e">> }

\* s occurs in the query as a whole word, letter case aside
InQuery(s) == \E p \in 1..Len(query) : InWholeWord(lowered, s, p)

\* the lexicon entries that carry the ticker of entry k
SameTicker(k) ==
  { j \in 1..Len(COMPANY_TICKER_MAP) :
      COMPANY_TICKER_MAP[j][2] = COMPANY_TICKER_MAP[k][2] }

\* C11: when a lexicon ticker occurs in the query as a whole word, in any
\* letter case, extract_companies returns the first company of the lexicon
\* that carries the ticker; the ticker itself is not returned, and the other
\* companies carrying it are returned only when the query names them.
C11_TickerGivesFirstCompany ==
  (called = "extract_companies" /\ query # None) =>
    \A k \in 1..Len(COMPANY_TICKER_MAP) :
      InQuery(Lower(COMPANY_TICKER_MAP[k][2])) =>
        LET first == CHOOSE j \in SameTicker(k) : \A i \in SameTicker(k) : j <= i
        IN
        /\ COMPANY_TICKER_MAP[first][1] \in ret.val
        /\ COMPANY_TICKER_MAP[k][2] \notin ret.val
        /\ Lower(COMPANY_TICKER_MAP[k][2]) \in ret.val =>
             \E i \in 1..Len(COMPANY_TICKER_MAP) :
               COMPANY_TICKER_MAP[i][1] = Lower(COMPANY_TICKER_MAP[k][2])
        /\ \A j \in SameTicker(k) \ {first} :
             COMPANY_TICKER_MAP[j][1] \in ret.val =>
               \/ InQuery(COMPANY_TICKER_MAP[j][1])
               \/ COMPANY_TICKER_MAP[j][1] \in file_companies(raw_data)

\* extract_companies("GOOGL") returned google, the first of the two companies
\* with that ticker
C11_GooglGivesGoogle ==
  /\ called = "extract_companies"
  /\ query = <<"G","O","O","G","L">>
  /\ ret.val = { <<"g","o","o","g","l","e">> }

\* C12: map_to_tickers returns exactly the lexicon tickers of the given names,
\* looked up without regard to letter case; names the lexicon does not have
\* are skipped, no ticker is returned twice, and an empty list gives an empty
\* list.
C12_PureLookup ==
  called = "map_to_tickers" =>
    /\ ~ret.exc
    /\ Range(ret.val) =
         { COMPANY_TICKER_MAP[k][2] :
             k \in { n \in 1..Len(COMPANY_TICKER_MAP) :
                       \E i \in 1..Len(companies) :
                         Lower(companies[i]) = COMPANY_TICKER_MAP[n][1] } }
    /\ \A i, j \in 1..Len(ret.val) : ret.val[i] = ret.val[j] => i = j
    /\ companies = <<>> => ret.val = <<>>

\* map_to_tickers(["Google", "alphabet"]) returned ["GOOGL"]
C12_GoogleAlphabetOnce ==
  /\ called = "map_to_tickers"
  /\ companies = << <<"G","o","o","g","l","e">>, <<"a","l","p","h","a","b","e","t">> >>
  /\ ret.val = << <<"G","O","O","G","L">> >>

(***************************************************************************)
(* The end-to-end scenarios: the dispatchers on the two scenario queries    *)
(***************************************************************************)
InitPipeline ==
  /\ impl \in Impls
  /\ query \in PipelineQueries
  /\ companies = <<>>
  /\ tickers = <<>>
  /\ agent_order = order_of(impl)
  /\ raw_data \in { dir \in RawDataDirs : dir.exists }
  /\ called = "none"
  /\ ret = NoReturn
  /\ faults = {}
  /\ pc = "start"
  /\ agent_names = <<>>
  /\ task = <<>>
  /\ results = <<>>
  /\ outcomes = <<>>
  /\ responses = EmptyDict
  /\ context_updates = EmptyDict
  /\ status = "none"
  /\ successful_agents = <<>>
  /\ failed_agents = <<>>
  /\ execution_times = {}
  /\ log = <<>>
  /\ response = NoResponse
  /\ overtaken = FALSE
  /\ request_id = DEFAULT_REQUEST_ID
  /\ agent_request_id = None
  /\ invocations = <<>>
  /\ steps = <<>>
  /\ improved_results = EmptyDict
  /\ final_results = EmptyDict
  /\ stop_event = NoStopEvent
  /\ heap = <<>>
  /\ request = <<>>
  /\ ModuleLoaded

SpecPipeline == InitPipeline /\ [][NextDispatch]_vars

\* no step of the request before the fan-out raised
no_fault == faults \subseteq {"log"}

\* the plan has just been selected: no agent has been started
selected ==
  \/ pc = "analyzed"
  \/ pc = "gather" /\ \A i \in 1..Len(task) : task[i] = "pending"

C14_BareCompanyName ==
  (called = "pipeline" /\ lowered \in CompanyQueries) =>
    /\ is_financial_query(query, companies, tickers) = Return(TRUE)
    /\ {FinanceAgent, YahooAgent, SECAgent, RedditAgent} \subseteq Range(ret.val)

\* the pipeline on the query "amazon" gave the four-agent plan
C14_Amazon ==
  /\ called = "pipeline"
  /\ query = <<"a","m","a","z","o","n">>
  /\ companies = << <<"a","m","a","z","o","n">> >>
  /\ tickers = << <<"A","M","Z","N">> >>
  /\ Len(ret.val) = 4

(***************************************************************************)
(* Calls of the classification functions one after the other in one        *)
(* process, while the document corpus may change between them              *)
(***************************************************************************)
\* most calls in one run
MaxCalls == 3

\* "acme" (a company only the corpus knows) and "msft"
CallQueries == { Sentence[10], Sentence[8] }

CallNames ==
  { << <<"G","o","o","g","l","e">>, <<"a","l","p","h","a","b","e","t">> >>,
    << <<"a","c","m","e">> >> }

\* (query, companies, tickers) triples for is_financial_query, determine_agents
CallArgs ==
  { [q |-> Sentence[8], cs |-> <<>>, ts |-> << <<"M","S","F","T">> >>],
    [q |-> Join(<<Sentence[3], Sentence[4]>>),
     cs |-> << <<"a","p","p","l","e">> >>, ts |-> <<>>] }

\* what a call gave back: raised or not; the elements of a returned list of
\* names or tickers; a returned plan; a returned verdict
Out(exc, items, plan, verdict) ==
  [exc |-> exc, items |-> items, plan |-> plan, verdict |-> verdict]

\* one call: the function, its arguments (those it does not take are left
\* empty), the corpus it could read, and what it gave back
CallRecord(function, q, cs, ts, order, dir, out) ==
  [function |-> function, query |-> q, companies |-> cs, tickers |-> ts,
   agent_order |-> order, raw_data |-> dir, out |-> out]

NoDir == [exists |-> FALSE, files |-> {}]

InvokeExtractCompanies ==
  /\ pc = "idle" /\ Len(history) < MaxCalls
  /\ \E q \in CallQueries :
       LET found == extract_companies(q, lexicon, raw_data) IN
       /\ query' = q
       /\ ret' = Return(found)
       /\ history' = Append(history,
            CallRecord("extract_companies", q, <<>>, <<>>, "unset", raw_data,
                       Out(FALSE, found, <<>>, FALSE)))
  /\ called' = "extract_companies"
  /\ lexicon' = lexicon_after("extract_companies", lexicon)
  /\ keywords' = keywords_after("extract_companies", keywords)
  /\ UNCHANGED <<companies, tickers, agent_order, raw_data>>
  /\ UNCHANGED dispatchVars

InvokeMapToTickers ==
  /\ pc = "idle" /\ Len(history) < MaxCalls
  /\ \E cs \in CallNames :
     \E found \in Orderings(map_to_tickers(cs, lexicon)) :
       /\ companies' = cs
       /\ ret' = Return(found)
       /\ history' = Append(history,
            CallRecord("map_to_tickers", <<>>, cs, <<>>, "unset", NoDir,
                       Out(FALSE, { found[i] : i \in 1..Len(found) }, <<>>, FALSE)))
  /\ called' = "map_to_tickers"
  /\ lexicon' = lexicon_after("map_to_tickers", lexicon)
  /\ keywords' = keywords_after("map_to_tickers", keywords)
  /\ UNCHANGED <<query, tickers, agent_order, raw_data>>
  /\ UNCHANGED dispatchVars

InvokeIsFinancialQuery ==
  /\ pc = "idle" /\ Len(history) < MaxCalls
  /\ \E a \in CallArgs :
       LET verdict == is_financial_with(a.q, a.cs, a.ts, keywords) IN
       /\ query' = a.q
       /\ companies' = a.cs
       /\ tickers' = a.ts
       /\ ret' = verdict
       /\ history' = Append(history,
            CallRecord("is_financial_query", a.q, a.cs, a.ts, "unset", NoDir,
                       Out(verdict.exc, {}, <<>>, verdict.val)))
  /\ called' = "is_financial_query"
  /\ lexicon' = lexicon_after("is_financial_query", lexicon)
  /\ keywords' = keywords_after("is_financial_query", keywords)
  /\ UNCHANGED <<agent_order, raw_data>>
  /\ UNCHANGED dispatchVars

InvokeDetermineAgents ==
  /\ pc = "idle" /\ Len(history) < MaxCalls
  /\ \E a \in CallArgs, order \in AgentOrders :
       LET plan == plan_for(is_financial_with(a.q, a.cs, a.ts, keywords),
                            a.ts, order)
       IN
       /\ query' = a.q
       /\ companies' = a.cs
       /\ tickers' = a.ts
       /\ agent_order' = order
       /\ ret' = Return(plan)
       /\ history' = Append(history,
            CallRecord("determine_agents", a.q, a.cs, a.ts, order, NoDir,
                       Out(FALSE, {}, plan, FALSE)))
  /\ called' = "determine_agents"
  /\ lexicon' = lexicon_after("determine_agents", lexicon)
  /\ keywords' = keywords_after("determine_agents", keywords)
  /\ UNCHANGED raw_data
  /\ UNCHANGED dispatchVars

\* the raw_data directory is created, emptied or filled between two calls
ReplaceCorpus ==
  /\ pc = "idle"
  /\ raw_data' \in RawDataDirs \ {raw_data}
  /\ UNCHANGED <<query, companies, tickers, agent_order, called, ret>>
  /\ UNCHANGED dispatchVars
  /\ UNCHANGED moduleVars

NextCalls ==
  \/ InvokeExtractCompanies
  \/ InvokeMapToTickers
  \/ InvokeIsFinancialQuery
  \/ InvokeDetermineAgents
  \/ ReplaceCorpus

SpecCalls == InitClassify /\ [][NextCalls]_vars

\* two calls of one function with the same arguments and the same corpus
SameCall(a, b) ==
  /\ a.function = b.function
  /\ a.query = b.query
  /\ a.companies = b.companies
  /\ a.tickers = b.tickers
  /\ a.agent_order = b.agent_order
  /\ a.raw_data = b.raw_data

other_order == IF agent_order = "finance_first" THEN "reddit_first" ELSE "finance_first"

\* C16: for the same query, companies and tickers, classification failing or
\* not, determine_agents gives plans of the same agents and the same length
\* under finance_first and under reddit_first.
C16_OrderOnlyPermutes ==
  called = "determine_agents" =>
    LET other == determine_agents(query, companies, tickers, other_order) IN
    /\ Len(ret.val) = Len(other)
    /\ Range(ret.val) = Range(other)
    /\ \A i, j \in 1..Len(ret.val) : ret.val[i] = ret.val[j] => i = j

\* determine_agents(None, ..., "reddit_first") returned [RedditAgent,
\* FinanceAgent] after classification raised
C16_DefaultPlanRedditFirst ==
  /\ called = "determine_agents"
  /\ query = None
  /\ agent_order = "reddit_first"
  /\ ret.val = <<RedditAgent, FinanceAgent>>

\* a router's route has returned
route_returned == impl \in Routers /\ pc = "done" /\ response.returned

C18_OneAuditRecord ==
  (route_returned /\ "log" \notin faults) =>
    /\ Len(log) = 1
    /\ log[1].started_timestamp
    /\ log[1].completed_timestamp
    /\ log[1].companies = companies
    /\ log[1].tickers = tickers
    /\ log[1].sub_agents = agent_names
    /\ log[1].status = response.status

\* a router's route has ended, by a return or by an exception
route_ended == impl \in Routers /\ pc = "done"

\* what the result loop makes of the gathered results
merged == merge_results(impl, merge_start, agent_names, results, 1)

\* C19: whether or not the write of the audit record failed, route returns
\* (it does not raise) the response built from the data, context_updates and
\* status it had before the write: a failed write changes none of them.
C19_LogFailureSwallowed ==
  route_ended =>
    /\ response.returned
    /\ ~response.raised
    /\ response.status = status
    /\ (faults \cap {"context", "merge"} = {} /\ dispatched) =>
         /\ response.status = merged.status
         /\ response.context_updates = merged.context_updates
         /\ merged.responses # EmptyDict => response.data = merged.responses
    /\ ("context" \in faults) =>
         /\ response.status = "failed"
         /\ DOMAIN response.data = {ERROR_KEY}
    /\ "log" \in faults => log = <<>>

\* RouterAgent.route returned partial_failure although the write of the audit
\* record had failed
C19_ReturnedWithoutRecord ==
  /\ route_ended
  /\ impl = "RouterAgent"
  /\ "log" \in faults
  /\ log = <<>>
  /\ response.returned
  /\ response.status = "partial_failure"

(***************************************************************************)
(* Agents that write to the request they were handed                       *)
(***************************************************************************)
\* the fields of the context an agent may write to
ContextFields == {"companies", "tickers", "extracted_terms"}

\* request.context.<field>.append(agent_name), or
\* request.context.extracted_terms[agent_name] = ...
write_field(ctx, field, agent_name) ==
  CASE field = "companies" ->
         [ctx EXCEPT !.companies = Append(@, agent_name)]
    [] field = "tickers" ->
         [ctx EXCEPT !.tickers = Append(@, agent_name)]
    [] OTHER ->
         [ctx EXCEPT !.extracted_terms = @ \cup {agent_name}]

\* the agent of plan position i has written to the context of its request
wrote(ctx, agent_name) ==
  \/ agent_name \in Range(ctx.companies)
  \/ agent_name \in Range(ctx.tickers)
  \/ agent_name \in ctx.extracted_terms

\* During its run the agent of plan position i writes once to a field of the
\* context of the request it received.
MutateContext(i) ==
  /\ pc = "gather"
  /\ task[i] = "running"
  /\ ~wrote(heap[request[i]], agent_names[i])
  /\ \E field \in ContextFields :
       heap' = [heap EXCEPT ![request[i]] = write_field(@, field, agent_names[i])]
  /\ UNCHANGED moduleVars
  /\ UNCHANGED stop_event
  /\ UNCHANGED final_results
  /\ UNCHANGED improved_results
  /\ UNCHANGED steps
  /\ UNCHANGED invocations
  /\ UNCHANGED agent_request_id
  /\ UNCHANGED request_id
  /\ UNCHANGED overtaken
  /\ UNCHANGED <<query, companies, tickers, agent_order, raw_data, called, ret,
                 impl, faults, pc, agent_names, task, results, outcomes,
                 responses, context_updates, status, successful_agents,
                 failed_agents, execution_times, log, response, request>>

\* requests with a plan of two agents and with a plan of one
RequestQueries ==
  { Join(<<Sentence[7]>>),                \* "stocks"
    Join(<<Sentence[3], Sentence[4]>>) }  \* "apple pie"

\* the dispatchers the request objects are followed in
InitRequest ==
  /\ InitDispatch
  /\ impl \in {"RouterAgent", "FinanceAgentsWorkflow"}
  /\ query \in RequestQueries

NextRequest ==
  \/ NextDispatch
  \/ \E i \in DOMAIN task : MutateContext(i)

SpecRequest == InitRequest /\ [][NextRequest]_vars

\* C20: every agent of one route call has a context of its own: whatever the
\* other agents of the call wrote to the companies, tickers or
\* extracted_terms of the requests they received, the context of the request
\* of an agent that wrote nothing itself is the context route built.
C20_IndependentContexts ==
  \A i \in DOMAIN request :
    ~wrote(heap[request[i]], agent_names[i]) =>
      heap[request[i]] = MCPContext(companies, tickers, extracted_terms(impl))

\* the plan positions whose result is an envelope that sets key k
setters(k) ==
  { i \in 1..Len(agent_names) :
      results[i].t = "MCPResponse" /\ k \in DOMAIN results[i].cu }

\* the largest element of a non-empty set of plan positions
last_of(S) == CHOOSE i \in S : \A j \in S : j <= i

\* C21: in whatever order the agents completed, the context_updates route
\* returns hold, for every key some agent's envelope set, the value of the
\* agent latest in the plan among those that set it, and the returned data is
\* what the results give when merged in plan order.
C21_PlanOrderLastWriteWins ==
  (routed /\ faults \cap {"context", "merge"} = {}) =>
    /\ DOMAIN response.context_updates
         = UNION { DOMAIN results[i].cu : i \in 1..Len(agent_names) }
    /\ \A k \in DOMAIN response.context_updates :
         response.context_updates[k] = results[last_of(setters(k))].cu[k]
    /\ merged.responses # EmptyDict => response.data = merged.responses

\* RouterAgent.route returned after its second agent had completed before
\* its first; both had set the shared key and the second agent's value is
\* the one returned
C21_LaterAgentWins ==
  /\ routed
  /\ impl = "RouterAgent"
  /\ overtaken
  /\ Len(agent_names) = 2
  /\ setters(SHARED_UPDATE_KEY) = {1, 2}
  /\ response.context_updates[SHARED_UPDATE_KEY] = Str(agent_names[2])

\* C22: in the three routers the key of an agent is its identifier in lower
\* case without "agent", the keys of the five agents differ, and the data of
\* an agent's envelope is stored under that agent's key, where no other
\* agent's result can replace it.
C22_StoredUnderOwnKey ==
  /\ key_name(FinanceAgent) = <<"f","i","n","a","n","c","e">>
  /\ key_name(YahooAgent) = <<"y","a","h","o","o">>
  /\ key_name(SECAgent) = <<"s","e","c">>
  /\ key_name(RedditAgent) = <<"r","e","d","d","i","t">>
  /\ key_name(GeneralAgent) = <<"g","e","n","e","r","a","l">>
  /\ \A a, b \in Agents : key_name(a) = key_name(b) => a = b
  /\ (routed /\ faults \cap {"context", "merge"} = {}) =>
       \A i \in 1..Len(agent_names) :
         results[i].t = "MCPResponse" =>
           /\ key_name(agent_names[i]) \in DOMAIN response.data
           /\ response.data[key_name(agent_names[i])] = Dict(results[i].d)

(***************************************************************************)
(* Requests with the request ids a caller may send                         *)
(***************************************************************************)
InitIds ==
  /\ impl \in Impls
  /\ query \in RequestQueries
  /\ request_id \in RequestIds
  /\ companies = <<>>
  /\ tickers = <<>>
  /\ agent_order = order_of(impl)
  /\ raw_data \in { dir \in RawDataDirs : dir.exists }
  /\ called = "none"
  /\ ret = NoReturn
  /\ faults = {}
  /\ pc = "start"
  /\ agent_names = <<>>
  /\ task = <<>>
  /\ results = <<>>
  /\ outcomes = <<>>
  /\ responses = EmptyDict
  /\ context_updates = EmptyDict
  /\ status = "none"
  /\ successful_agents = <<>>
  /\ failed_agents = <<>>
  /\ execution_times = {}
  /\ log = <<>>
  /\ response = NoResponse
  /\ overtaken = FALSE
  /\ agent_request_id = None
  /\ invocations = <<>>
  /\ steps = <<>>
  /\ improved_results = EmptyDict
  /\ final_results = EmptyDict
  /\ stop_event = NoStopEvent
  /\ heap = <<>>
  /\ request = <<>>
  /\ ModuleLoaded

SpecIds == InitIds /\ [][NextDispatch]_vars

\* C23: the response route returns carries the request_id of the incoming
\* request, with status success, partial_failure or failed alike, and the
\* request handed to the agents carries that request_id too.
C23_RequestIdPassthrough ==
  route_ended =>
    /\ response.request_id = request_id
    /\ dispatched => agent_request_id = request_id

\* C24: within one route call the run of every selected agent is entered
\* exactly once: never twice, and once by the time route returns; a call that
\* raised is recorded as one error record and not repeated.
C24_InvokedExactlyOnce ==
  /\ \A i \in DOMAIN invocations : invocations[i] <= 1
  /\ routed =>
       \A i \in 1..Len(agent_names) :
         /\ invocations[i] = 1
         /\ outcomes[i].t = "Exception" => IsErrorRecord(results[i])

(***************************************************************************)
(* The dispatchers under the scheduling of the event loop                  *)
(***************************************************************************)
\* the steps of route from its fan-out on
AfterFanOut ==
  \/ \E i \in DOMAIN task : StartAgent(i)
  \/ \E i \in DOMAIN task : FinishAgent(i)
  \/ Complete

\* the steps of route
NextRoute ==
  \/ Dispatch
  \/ AfterFanOut

\* a request to one of the three routers
InitBarrier ==
  /\ InitDispatch
  /\ impl \in Routers
  /\ query \in RequestQueries

\* The event loop always runs one of the coroutines that are ready (a
\* gathered task that was not started, route after its gather returned), and
\* an agent call that was started resolves: the call returns or raises.  Some
\* step after the fan-out is therefore taken as long as one is possible.
Scheduling == WF_vars(AfterFanOut)

SpecBarrier == InitBarrier /\ [][NextRoute]_vars /\ Scheduling

\* C25: route has selected its agents before any of them is started and the
\* plan does not change afterwards; it has returned no response while the
\* call of a selected agent is unresolved; and, every agent call resolving,
\* route eventually returns.
C25_ScatterGatherBarrier ==
  /\ [](impl \in Routers =>
          /\ dispatched => (Len(task) = Len(agent_names) /\ pc \in {"gather", "done"})
          /\ response.returned =>
               /\ pc = "done"
               /\ \A i \in DOMAIN task :
                    task[i] = "done" /\ outcomes[i] # Pending)
  /\ [][dispatched => agent_names' = agent_names]_vars
  /\ (impl \in Routers /\ pc = "gather") ~> (pc = "done" /\ response.returned)

\* RouterAgent.route returned after its two agents had resolved, the second
\* before the first
C25_ReturnedAfterBoth ==
  /\ routed
  /\ impl = "RouterAgent"
  /\ overtaken
  /\ response.returned
  /\ Len(task) = 2
  /\ \A i \in DOMAIN task : task[i] = "done"

(***************************************************************************)
(* FinanceAgentsWorkflow: the steps after execute_agents                   *)
(***************************************************************************)
\* the five @step methods in the order of the event chain
WORKFLOW_STEPS ==
  <<"analyze_query", "execute_agents", "improve_responses",
    "generate_comprehensive_summary", "finalize_results">>

UpperChar(c) ==
  IF \E i \in 1..26 : LowerCase[i] = c
    THEN UpperCase[CHOOSE i \in 1..26 : LowerCase[i] = c]
    ELSE c

\* str.capitalize()
Capitalize(s) ==
  IF s = <<>> THEN s ELSE <<UpperChar(Head(s))>> \o Lower(Tail(s))

\* FinanceAgentsWorkflow._get_agent_key
get_agent_key(agent) ==
  LET a == Lower(agent) IN
  CASE a \in {key_name(RedditAgent), Lower(RedditAgent)} -> RedditAgent
    [] a \in {key_name(FinanceAgent), Lower(FinanceAgent)} -> FinanceAgent
    [] a \in {key_name(YahooAgent), Lower(YahooAgent),
              <<"y","a","h","o","o","_","e","n","h","a","n","c","e","d">>} -> YahooAgent
    [] a \in {key_name(SECAgent), Lower(SECAgent)} -> SECAgent
    [] a \in {key_name(GeneralAgent), Lower(GeneralAgent)} -> GeneralAgent
    [] OTHER -> Capitalize(agent) \o <<"A","g","e","n","t">>

\* bool(x)
truthy(x) ==
  CASE x.t = "NoneType" -> FALSE
    [] x.t = "dict" -> x.d # EmptyDict
    [] x.t = "str" -> x.s # <<>>
    [] OTHER -> TRUE

\* json.dumps(x): the text is kept as a tag and the type of the value
json_dumps(x) == <<"json of ">> \o str_of(x)

SUMMARY_KEY == <<"s","u","m","m","a","r","y">>
FINAL_SUMMARY_KEY == <<"F","i","n","a","l","S","u","m","m","a","r","y">>

\* improve_single_response(agent_name, result) inside improve_responses; llm
\* tells whether  await improve_agent_response(..)  raises or returns text
improve_single_response(agent_name, result, llm) ==
  IF ~truthy(result)
     \/ (result.t = "dict" /\ ERROR_KEY \in DOMAIN result.d
         /\ truthy(result.d[ERROR_KEY]))
    THEN Str(str_of(result))
  ELSE IF agent_name = Lower(GeneralAgent) THEN
    IF result.t = "dict" THEN
      IF RESPONSE_KEY \in DOMAIN result.d THEN result.d[RESPONSE_KEY]
      ELSE IF Cardinality(DOMAIN result.d) = 1
              /\ key_name(GeneralAgent) \in DOMAIN result.d
        THEN result.d[key_name(GeneralAgent)]
      ELSE Str(json_dumps(result))
    ELSE Str(str_of(result))
  ELSE IF llm = "raises" THEN Str(str_of(result))
  ELSE Str(<<"improved ">> \o (IF result.t = "dict" THEN json_dumps(result)
                               ELSE str_of(result)))

\* FinanceAgentsWorkflow.improve_responses: returns at once when no agent
\* succeeded; else imports improve_agent_response from main (outside any try)
\* and improves every entry of agent_results.
ImproveResponses ==
  /\ pc = "executed"
  /\ steps' = Append(steps, "improve_responses")
  /\ IF responses = EmptyDict THEN
       /\ improved_results' = EmptyDict
       /\ pc' = "improved"
       /\ UNCHANGED faults
     ELSE
       \/ \* from main import improve_agent_response  raises
          /\ faults' = faults \cup {"import"}
          /\ pc' = "raised"
          /\ UNCHANGED improved_results
       \/ \E raising \in SUBSET DOMAIN responses :
            /\ improved_results' =
                 [k \in { get_agent_key(a) : a \in DOMAIN responses } |->
                    LET a == CHOOSE b \in DOMAIN responses : get_agent_key(b) = k IN
                    Dict(Single(SUMMARY_KEY,
                                improve_single_response(
                                  a, responses[a],
                                  IF a \in raising THEN "raises" ELSE "text")))]
            /\ faults' = faults \cup (IF raising = {} THEN {} ELSE {"llm"})
            /\ pc' = "improved"
  /\ UNCHANGED moduleVars
  /\ UNCHANGED requestVars
  /\ UNCHANGED <<query, companies, tickers, agent_order, raw_data, called, ret,
                 impl, agent_names, task, results, outcomes, responses,
                 context_updates, status, successful_agents, failed_agents,
                 execution_times, log, response, overtaken, request_id,
                 agent_request_id, invocations, final_results, stop_event>>

\* len(ev.improved_results) == 1 and "GeneralAgent" in ev.improved_results
has_general_only ==
  Cardinality(DOMAIN improved_results) = 1 /\ GeneralAgent \in DOMAIN improved_results

\* FinanceAgentsWorkflow.generate_comprehensive_summary: no summary for a
\* GeneralAgent-only result; else the summary of main, or the fallback text
\* when its generation raises.
GenerateSummary ==
  /\ pc = "improved"
  /\ steps' = Append(steps, "generate_comprehensive_summary")
  /\ IF has_general_only THEN
       /\ final_results' = improved_results
       /\ UNCHANGED faults
     ELSE
       \E generation \in {"text", "raises"} :
         /\ final_results' =
              Update(improved_results,
                     Single(FINAL_SUMMARY_KEY,
                            Dict(Single(SUMMARY_KEY,
                                        Str(IF generation = "raises"
                                              THEN <<"ANALYSIS SUMMARY">>
                                              ELSE <<"summary">>)))))
         /\ faults' = faults \cup (IF generation = "raises" THEN {"summary"} ELSE {})
  /\ pc' = "summarized"
  /\ UNCHANGED moduleVars
  /\ UNCHANGED requestVars
  /\ UNCHANGED <<query, companies, tickers, agent_order, raw_data, called, ret,
                 impl, agent_names, task, results, outcomes, responses,
                 context_updates, status, successful_agents, failed_agents,
                 execution_times, log, response, overtaken, request_id,
                 agent_request_id, invocations, improved_results, stop_event>>

\* Variant: a status that reports the failed agents.
status_by_failures(failed) == IF failed = <<>> THEN "success" ELSE "partial"

\* "status" of response_data: a literal, whatever agents failed
result_status(failed) == "success"

\* FinanceAgentsWorkflow.finalize_results: the result of the StopEvent
FinalizeResults ==
  /\ pc = "summarized"
  /\ steps' = Append(steps, "finalize_results")
  /\ stop_event' = [status |-> result_status(failed_agents),
                    results |-> final_results,
                    metadata |-> [total_agents |-> Cardinality(execution_times),
                                  agent_order |-> agent_names]]
  /\ pc' = "stopped"
  /\ UNCHANGED moduleVars
  /\ UNCHANGED requestVars
  /\ UNCHANGED <<query, companies, tickers, agent_order, raw_data, called, ret,
                 impl, faults, agent_names, task, results, outcomes, responses,
                 context_updates, status, successful_agents, failed_agents,
                 execution_times, log, response, overtaken, request_id,
                 agent_request_id, invocations, improved_results, final_results>>

\* the workflow's timeout expires while a step is waiting
TimeOut ==
  /\ impl = "FinanceAgentsWorkflow"
  /\ pc \in {"gather", "executed", "improved"}
  /\ faults' = faults \cup {"timeout"}
  /\ pc' = "timed_out"
  /\ UNCHANGED moduleVars
  /\ UNCHANGED requestVars
  /\ UNCHANGED <<query, companies, tickers, agent_order, raw_data, called, ret,
                 impl, agent_names, task, results, outcomes, responses,
                 context_updates, status, successful_agents, failed_agents,
                 execution_times, log, response, overtaken, request_id,
                 agent_request_id, invocations, steps, improved_results,
                 final_results, stop_event>>

\* run_financeagents_analysis: the result of workflow.run, or the dict of one
\* of its two except branches
ReturnAnalysis ==
  /\ pc \in {"stopped", "raised", "timed_out", "aborted"}
  /\ \E st \in (CASE pc = "stopped" -> {stop_event.status}
                  [] pc = "timed_out" -> {"timeout", "error"}
                  [] OTHER -> {"error"}) :
       response' = [NoResponse EXCEPT
                      !.returned = TRUE,
                      !.status = st,
                      !.data = IF pc = "stopped" THEN stop_event.results ELSE EmptyDict]
  /\ pc' = "returned"
  /\ UNCHANGED moduleVars
  /\ UNCHANGED requestVars
  /\ UNCHANGED <<query, companies, tickers, agent_order, raw_data, called, ret,
                 impl, faults, agent_names, task, results, outcomes, responses,
                 context_updates, status, successful_agents, failed_agents,
                 execution_times, log, overtaken, request_id,
                 agent_request_id, invocations, steps, improved_results,
                 final_results, stop_event>>

\* runs of the workflow with a plan of two agents and with a plan of one
InitWorkflow ==
  /\ InitDispatch
  /\ impl = "FinanceAgentsWorkflow"
  /\ query \in RequestQueries

NextWorkflow ==
  \/ AnalyzeQuery
  \/ ExecuteAgents
  \/ \E i \in DOMAIN task : StartAgent(i)
  \/ \E i \in DOMAIN task : FinishAgent(i)
  \/ CollectResults
  \/ ImproveResponses
  \/ GenerateSummary
  \/ FinalizeResults
  \/ TimeOut
  \/ ReturnAnalysis

SpecWorkflow == InitWorkflow /\ [][NextWorkflow]_vars

(***************************************************************************)
(* Properties of the workflow run                                          *)
(***************************************************************************)
\* run_financeagents_analysis has returned
analysis_returned == impl = "FinanceAgentsWorkflow" /\ pc = "returned"

IsPrefix(a, b) == Len(a) <= Len(b) /\ a = SubSeq(b, 1, Len(a))

\* C26: every run of FinanceAgentsWorkflow executes analyze_query,
\* execute_agents, improve_responses, generate_comprehensive_summary and
\* finalize_results in that order, each once, and a run that does not time
\* out ends with the StopEvent of finalize_results: no failure of the
\* analysis, of an agent, of an LLM call or of the summary generation ends it
\* earlier.
C26_FixedStepsThenStop ==
  impl = "FinanceAgentsWorkflow" =>
    /\ IsPrefix(steps, WORKFLOW_STEPS)
    /\ (pc = "returned" /\ "timeout" \notin faults) =>
         /\ steps = WORKFLOW_STEPS
         /\ stop_event # NoStopEvent

\* expected_agents of the scenarios of test_multiple_scenarios
expected_agents(is_finance, ts) ==
  IF is_finance THEN
    IF ts # <<>>
      THEN {FinanceAgent, YahooAgent, SECAgent, RedditAgent, GeneralAgent}
      ELSE {FinanceAgent, RedditAgent, GeneralAgent}
  ELSE {GeneralAgent}

\* C27: the agents the workflow selects for a query are the expected_agents of
\* the test scenarios: a financial query with a ticker selects FinanceAgent,
\* YahooAgent, SECAgent, RedditAgent and GeneralAgent, a financial query
\* without a ticker selects FinanceAgent, RedditAgent and GeneralAgent, and a
\* non-finance query selects GeneralAgent only.
C27_SelectsExpectedAgents ==
  (impl = "FinanceAgentsWorkflow" /\ pc \notin {"idle", "start"} /\ faults = {}) =>
    Range(agent_names) =
      expected_agents(is_financial_query(query, companies, tickers).val, tickers)

\* execute_agents has returned its AgentExecutionCompleteEvent
agents_executed == impl = "FinanceAgentsWorkflow" /\ pc = "executed"

\* C28: after execute_agents, successful_agents and failed_agents are
\* disjoint and together are exactly the selected agents (failed: those whose
\* call raised), agent_results has an entry for each successful agent and for
\* no other, and execution_times has an entry for every selected agent.
C28_SuccessFailurePartition ==
  agents_executed =>
    /\ Range(successful_agents) \cap Range(failed_agents) = {}
    /\ Range(successful_agents) \cup Range(failed_agents) = Range(agent_names)
    /\ Len(successful_agents) + Len(failed_agents) = Len(agent_names)
    /\ \A i \in 1..Len(agent_names) :
         agent_names[i] \in Range(failed_agents) <=> outcomes[i].t = "Exception"
    /\ DOMAIN responses = { Lower(a) : a \in Range(successful_agents) }
    /\ execution_times = Range(agent_names)

\* execute_agents returned with one agent successful and another failed
C28_OneSucceededOneFailed ==
  /\ agents_executed
  /\ successful_agents # <<>>
  /\ failed_agents # <<>>

\* the run went through finalize_results
finalized == impl = "FinanceAgentsWorkflow" /\ "finalize_results" \in Range(steps)

\* C29: a run that reaches finalize_results has status "success" whatever
\* agents failed; its results hold a key for each successful agent (and the
\* final summary) and nothing for or about a failed agent; and
\* run_financeagents_analysis returns another status than "success" only when
\* the workflow timed out or raised.
C29_SuccessWhateverFailed ==
  /\ finalized =>
       /\ stop_event.status = "success"
       /\ DOMAIN stop_event = {"status", "results", "metadata"}
       /\ DOMAIN stop_event.results \ {FINAL_SUMMARY_KEY} = Range(successful_agents)
       /\ \A a \in Range(failed_agents) : a \notin DOMAIN stop_event.results
  /\ analysis_returned =>
       /\ finalized => (response.status = "success" /\ response.data = stop_event.results)
       /\ response.status # "success" =>
            (~finalized /\ faults \cap {"timeout", "import"} # {})

\* the analysis returned "success" although both selected agents failed
C29_SuccessWithAllFailed ==
  /\ analysis_returned
  /\ response.status = "success"
  /\ Len(failed_agents) = 2
  /\ successful_agents = <<>>

\* the file names of the corpus whose leading segment, lower-cased, is c
corpus_files(c) ==
  { f \in raw_data.files :
      /\ raw_data.exists
      /\ \E ext \in SUPPORTED_EXTENSIONS : EndsWith(Lower(f), ext)
      /\ Lower(leading_segment(splitext_root(f))) = c }

\* "pineapple"
pineapple == Sentence[5]

\* C30: extract_companies reports nothing that is not there and nothing
\* twice: every reported company is a lexicon name such that the name or its
\* lower-cased ticker is a whole word of the lowered query, or the lower-cased
\* leading segment of a .pdf/.htm/.html file of the corpus that is a whole
\* word of the query; "apple" is not reported for "pineapple", and the empty
\* query gives nothing.
C30_NoFalsePositives ==
  /\ (called = "extract_companies" /\ query # None) =>
       /\ ~ret.exc
       /\ \A c \in ret.val :
            \/ \E k \in 1..Len(COMPANY_TICKER_MAP) :
                 /\ COMPANY_TICKER_MAP[k][1] = c
                 /\ (InQuery(c) \/ InQuery(Lower(COMPANY_TICKER_MAP[k][2])))
            \/ (corpus_files(c) # {} /\ InQuery(c))
       /\ query = pineapple => <<"a","p","p","l","e">> \notin ret.val
       /\ query = <<>> => ret.val = {}
  /\ called = "pipeline" =>
       \A i, j \in 1..Len(companies) : companies[i] = companies[j] => i = j

\* extract_companies was called on "pineapple" and reported nothing
C30_PineappleGivesNothing ==
  /\ called = "extract_companies"
  /\ query = pineapple
  /\ raw_data.exists
  /\ ret = Return({})

====
